---- MODULE Spec2Model ----
(***************************************************************************)
(* Model of the AI-assisted timesheet extraction endpoint                  *)
(* (deploy_package/routes/hunyuan.py): center routing, prompt building,    *)
(* the upstream completion call, and the post-filter; and of the feedback  *)
(* recorder (backend/models.py AIFeedback behind the endpoints of          *)
(* deploy_package/backend/routes/ai_feedback.py).                          *)
(*                                                                         *)
(* Text is a sequence of characters, one string per character.  A          *)
(* non-ASCII character is written by its code point: "u5C0F" is U+5C0F     *)
(* (the backtick of a code fence is "u0060").                              *)
(* Inside a completion, the text of one JSON value is a single element     *)
(* (see JsonLoads); everything around it is character by character.        *)
(***************************************************************************)
EXTENDS Integers, Sequences, FiniteSets, TLC

VARIABLES
    HUNYUAN_API_KEY,   \* module constant read from the environment: "" or a key
    pc,                \* position of the /parse request: "idle", "awaiting", "done"
    body,              \* request.get_json() of the request in progress
    center,            \* local `center` of call_hunyuan_api after routing
    fields_info,       \* fields_info_str handed to call_hunyuan_api
    business_prompt,   \* name of the unit prompt selected
    hours_rule,        \* which hours clause the system prompt carries
    posts,             \* requests.post calls made for the request in progress
    upstream,          \* what the upstream call produced
    status,            \* HTTP status of the answer
    resp,              \* JSON answer of /parse
    ai_feedback,       \* rows of the table ai_feedback, in rowid order
    clock,             \* CURRENT_TIMESTAMP of the database, in ticks
    fb_pc,             \* position of the feedback request: "idle", "done"
    fb_request,        \* the feedback request in progress
    fb_status,         \* HTTP status of its answer
    fb_resp,           \* JSON answer of the feedback endpoint
    finalize,          \* per call of update_final_result in progress: its locals
    timesheet_entries, \* rows of the table timesheet_entries, by id
    ts_pc,             \* position of the timesheet request: "idle", "done"
    ts_request,        \* the timesheet request in progress
    ts_status,         \* HTTP status of its answer
    db_locked,         \* a connection left open holds the write lock of the database
    departments,       \* rows of the table departments, by id
    teams,             \* rows of the table teams, by id
    groups_table,      \* rows of the table groups_table, by id
    org,               \* per server thread: the organization request it serves
    system_config,     \* rows of the table system_config: value by key
    ai_enabled,        \* column ai_enabled of the table users, by user id
    cfg_pc,            \* position of the AI configuration request: "idle", "done"
    cfg_request,       \* the AI configuration request in progress
    cfg_status,        \* HTTP status of its answer
    cfg_resp,          \* JSON answer of the AI configuration route
    templates,         \* rows of the table templates, in rowid order
    templates_seq,     \* AUTOINCREMENT counter of the table templates
    tpl_pc,            \* position of the template request: "idle", "done"
    tpl_request,       \* the template request in progress
    tpl_status,        \* HTTP status of its answer
    tpl_resp           \* JSON answer of the template route

parse_vars == <<HUNYUAN_API_KEY, pc, body, center, fields_info, business_prompt,
                hours_rule, posts, upstream, status, resp>>

feedback_vars == <<ai_feedback, clock, fb_pc, fb_request, fb_status, fb_resp>>

finalize_vars == <<finalize>>

sheet_vars == <<timesheet_entries, ts_pc, ts_request, ts_status>>

\* the extraction and feedback side, and the administration side
ai_vars == <<parse_vars, feedback_vars, finalize_vars>>

db_vars == <<db_locked>>

org_vars == <<departments, teams, groups_table, org>>

config_vars == <<system_config, ai_enabled, cfg_pc, cfg_request, cfg_status, cfg_resp>>

template_vars == <<templates, templates_seq, tpl_pc, tpl_request, tpl_status, tpl_resp>>

admin_vars == <<sheet_vars, db_vars, org_vars, config_vars, template_vars>>

\* what a /parse step and what a feedback request leave alone
outside_parse == <<feedback_vars, finalize_vars, admin_vars>>

outside_feedback == <<parse_vars, finalize_vars, admin_vars>>

\* what a timesheet request leaves alone
outside_sheet == <<ai_vars, org_vars, config_vars, template_vars>>

\* what an organization request leaves alone
outside_org == <<ai_vars, sheet_vars, config_vars, template_vars>>

\* what a request of the AI configuration routes leaves alone
outside_config == <<ai_vars, sheet_vars, org_vars, template_vars>>

\* what a request of the template routes leaves alone
outside_template == <<ai_vars, sheet_vars, org_vars, config_vars>>

vars == <<ai_vars, admin_vars>>

-----------------------------------------------------------------------------
(* Characters and strings *)

Digit == {"0", "1", "2", "3", "4", "5", "6", "7", "8", "9"}

Space == {" ", "\n", "\t"}

UpperCase == <<"A", "B", "C", "D", "E", "F", "G", "H", "I", "J", "K", "L", "M",
               "N", "O", "P", "Q", "R", "S", "T", "U", "V", "W", "X", "Y", "Z">>

LowerCase == <<"a", "b", "c", "d", "e", "f", "g", "h", "i", "j", "k", "l", "m",
               "n", "o", "p", "q", "r", "s", "t", "u", "v", "w", "x", "y", "z">>

LowerChar(c) ==
    IF \E i \in 1..26 : UpperCase[i] = c
    THEN LowerCase[CHOOSE i \in 1..26 : UpperCase[i] = c]
    ELSE c

\* str.lower()
Lower(s) == [i \in 1..Len(s) |-> LowerChar(s[i])]

\* s.startswith(p) at offset i (1-based)
StartsWithAt(s, i, p) ==
    /\ i + Len(p) - 1 <= Len(s)
    /\ \A k \in 1..Len(p) : s[i + k - 1] = p[k]

StartsWith(s, p) == StartsWithAt(s, 1, p)

\* kw in s
Contains(s, kw) == \E i \in 1..(Len(s) - Len(kw) + 1) : StartsWithAt(s, i, kw)

\* first index >= i whose character is outside class C; Len(s)+1 when none
RECURSIVE SkipClass(_, _, _)
SkipClass(s, i, C) ==
    IF i <= Len(s) /\ s[i] \in C THEN SkipClass(s, i + 1, C) ELSE i

\* first index >= i whose character is inside class C; Len(s)+1 when none
RECURSIVE FindClass(_, _, _)
FindClass(s, i, C) ==
    IF i <= Len(s) /\ s[i] \notin C THEN FindClass(s, i + 1, C) ELSE i

\* str.strip()
Strip(s) ==
    LET a == SkipClass(s, 1, Space)
        RECURSIVE Back(_)
        Back(j) == IF j >= a /\ s[j] \in Space THEN Back(j - 1) ELSE j
    IN SubSeq(s, a, Back(Len(s)))

\* sep.join(ss), computed by halves
RECURSIVE Join(_, _)
Join(sep, ss) ==
    IF ss = <<>> THEN <<>>
    ELSE IF Len(ss) = 1 THEN ss[1]
    ELSE LET half == Len(ss) \div 2
         IN Join(sep, SubSeq(ss, 1, half)) \o sep \o Join(sep, SubSeq(ss, half + 1, Len(ss)))

\* str(n) for a natural number
RECURSIVE IntToStr(_)
IntToStr(n) ==
    LET d == CHOOSE c \in Digit :
                 c = <<"0", "1", "2", "3", "4", "5", "6", "7", "8", "9">>[(n % 10) + 1]
    IN IF n < 10 THEN <<d>> ELSE IntToStr(n \div 10) \o <<d>>

\* Python's None, where the code tells it from a string
None == "<None>"

-----------------------------------------------------------------------------
(* Center router: detect_center_from_message *)

\* investment-legal keywords, in list order
invest_keywords ==
    << <<"u6295", "u8D44", "u6CD5", "u52A1">>, <<"i", "n", "v", "e", "s", "t", "m", "e", "n", "t">>, <<"m", "&", "a">>, <<"s", "p", "a">>, <<"s", "h", "a">>, <<"l", "d", "d">>, <<"t", "e", "r", "m", " ", "s", "h", "e", "e", "t">>,
       <<"i", "p", "o">>, <<"u5E76", "u8D2D">>, <<"u5C3D", "u804C", "u8C03", "u67E5">>, <<"u8D44", "u672C", "u5E02", "u573A">>, <<"c", "a", "p", "i", "t", "a", "l", " ", "m", "a", "r", "k", "e", "t">>, <<"f", "u", "n", "d">>, <<"u57FA", "u91D1">>,
       <<"d", "e", "a", "l", "/", "m", "a", "t", "t", "e", "r">>, <<"s", "h", "a", "r", "e", "h", "o", "l", "d", "e", "r">>, <<"u80A1", "u4E1C">> >>

\* corporate and international finance keywords
corp_keywords ==
    << <<"u516C", "u53F8", "u53CA", "u56FD", "u9645", "u91D1", "u878D">>, <<"u56FD", "u9645", "u91D1", "u878D", "u4E8B", "u52A1">>, <<"c", "o", "r", "p", "o", "r", "a", "t", "e">>, <<"i", "n", "t", "e", "r", "n", "a", "t", "i", "o", "n", "a", "l">>,
       <<"t", "e", "n", "c", "e", "n", "t", " ", "c", "l", "o", "u", "d">>, <<"w", "e", "c", "h", "a", "t", " ", "p", "a", "y">>, <<"f", "i", "n", "t", "e", "c", "h">>, <<"e", "n", "t", "i", "t", "y">>, <<"o", "f", "f", "i", "c", "e">>,
       <<"u5883", "u5185", "u5916", "u4E3B", "u4F53">>, <<"u56FD", "u9645", "u76D1", "u7BA1">>, <<"r", "e", "g", "u", "l", "a", "t", "o", "r", "y">> >>

\* business management and compliance keywords
biz_keywords ==
    << <<"u4E1A", "u52A1", "u7BA1", "u7406">>, <<"u5408", "u89C4", "u68C0", "u6D4B">>, <<"u68C0", "u6D4B", "u9879", "u76EE">>, <<"v", "o", "c">>, <<"u4E94", "u90E8", "u95E8">>, <<"u9999", "u6E2F", "u94B1", "u5305">> >>

AnyKeyword(kws, text) == \E k \in 1..Len(kws) : Contains(text, kws[k])

\* the scan with the corporate keywords tested before the investment ones
detect_center_corp_first(user_message, fields_info_str) ==
    LET combined == Lower(user_message \o <<" ">> \o fields_info_str)
    IN IF AnyKeyword(corp_keywords, combined) THEN "corp"
       ELSE IF AnyKeyword(invest_keywords, combined) THEN "invest"
       ELSE IF AnyKeyword(biz_keywords, combined) THEN "biz"
       ELSE "default"

detect_center_from_message(user_message, fields_info_str) ==
    LET combined == Lower(user_message \o <<" ">> \o fields_info_str)
    IN IF AnyKeyword(invest_keywords, combined) THEN "invest"
       ELSE IF AnyKeyword(corp_keywords, combined) THEN "corp"
       ELSE IF AnyKeyword(biz_keywords, combined) THEN "biz"
       ELSE "default"

-----------------------------------------------------------------------------
(* Time-expression detector: check_hours_mentioned *)

\* the ten numerals U+4E00 (one) .. U+5341 (ten) of the character class
CnNumeral == { "u4E00", "u4E8C", "u4E09", "u56DB", "u4E94",
               "u516D", "u4E03", "u516B", "u4E5D", "u5341" }

\* the class [hH..]: h, H and the two characters of the hour word
HourUnitChar == { "h", "H", "u5C0F", "u65F6" }

\* end (exclusive) of the longest match of \d+\.?\d* that starts at digit i
NumberEnd(s, i) ==
    LET j == SkipClass(s, i, Digit)
        k == IF j <= Len(s) /\ s[j] = "." THEN j + 1 ELSE j
    IN SkipClass(s, k, Digit)

\* re.search of time_patterns[p] in s, p counted from 1 in list order
TimePatternMatches(p, s) ==
    CASE p = 1 ->   \* \d+\.?\d*\s*[hH..]
           \E i \in 1..Len(s) :
               /\ s[i] \in Digit
               /\ LET e == SkipClass(s, NumberEnd(s, i), Space)
                  IN e <= Len(s) /\ s[e] \in HourUnitChar
      [] p = 2 ->   \* \d+\.?\d*\s*hours?
           \E i \in 1..Len(s) :
               /\ s[i] \in Digit
               /\ StartsWithAt(s, SkipClass(s, NumberEnd(s, i), Space), <<"h", "o", "u", "r">>)
      [] p = 3 -> Contains(s, <<"u534A", "u5C0F", "u65F6">>)
      [] p = 4 -> Contains(s, <<"u534A", "u4E2A", "u5C0F", "u65F6">>)
      [] p = 5 -> Contains(s, <<"u4E00", "u4E2A", "u534A", "u5C0F", "u65F6">>)
      [] p = 6 -> Contains(s, <<"u4E24", "u4E2A", "u534A", "u5C0F", "u65F6">>)
      [] p = 7 ->   \* [numerals]+ followed by the hour word
           \E i \in 1..Len(s) :
               /\ s[i] \in CnNumeral
               /\ StartsWithAt(s, SkipClass(s, i, CnNumeral), <<"u5C0F", "u65F6">>)
      [] p = 8 ->   \* \d+\s*minutes word
           \E i \in 1..Len(s) :
               /\ s[i] \in Digit
               /\ StartsWithAt(s, SkipClass(s, SkipClass(s, i, Digit), Space), <<"u5206", "u949F">>)
      [] p = 9 ->   \* [numerals]+ followed by the minutes word
           \E i \in 1..Len(s) :
               /\ s[i] \in CnNumeral
               /\ StartsWithAt(s, SkipClass(s, i, CnNumeral), <<"u5206", "u949F">>)

NumTimePatterns == 9

check_hours_mentioned(user_message) ==
    \E p \in 1..NumTimePatterns : TimePatternMatches(p, user_message)

-----------------------------------------------------------------------------
(* parse_timesheet: team-name tier of the routing *)

\* a Python value that is falsy where the code writes `not center`
Falsy(c) == c = None \/ c = ""

\* the team-name tier applied even when the caller named a center
InferCenterFromTeam_always(c, team_name) ==
    IF team_name # <<>>
    THEN LET team_lower == Lower(team_name)
         IN IF Contains(team_lower, <<"u6295", "u8D44", "u6CD5", "u52A1">>) \/ Contains(team_lower, <<"i", "n", "v", "e", "s", "t", "m", "e", "n", "t">>)
            THEN "invest"
            ELSE IF Contains(team_lower, <<"u516C", "u53F8", "u53CA", "u56FD", "u9645", "u91D1", "u878D">>)
                    \/ Contains(team_lower, <<"u56FD", "u9645", "u91D1", "u878D", "u4E8B", "u52A1">>)
            THEN "corp"
            ELSE IF Contains(team_lower, <<"u4E1A", "u52A1", "u7BA1", "u7406">>) \/ Contains(team_lower, <<"u5408", "u89C4", "u68C0", "u6D4B">>)
            THEN "biz"
            ELSE c
    ELSE c

\* `center` after the block "if not center and team_name"
InferCenterFromTeam(c, team_name) ==
    IF Falsy(c) /\ team_name # <<>>
    THEN LET team_lower == Lower(team_name)
         IN IF Contains(team_lower, <<"u6295", "u8D44", "u6CD5", "u52A1">>) \/ Contains(team_lower, <<"i", "n", "v", "e", "s", "t", "m", "e", "n", "t">>)
            THEN "invest"
            ELSE IF Contains(team_lower, <<"u516C", "u53F8", "u53CA", "u56FD", "u9645", "u91D1", "u878D">>)
                    \/ Contains(team_lower, <<"u56FD", "u9645", "u91D1", "u878D", "u4E8B", "u52A1">>)
            THEN "corp"
            ELSE IF Contains(team_lower, <<"u4E1A", "u52A1", "u7BA1", "u7406">>) \/ Contains(team_lower, <<"u5408", "u89C4", "u68C0", "u6D4B">>)
            THEN "biz"
            ELSE c
    ELSE c

-----------------------------------------------------------------------------
(* parse_timesheet: flattening the field schema into fields_info_str *)

\* flat_options[:80]
OptionLimit == 80

\* a flatten that appends an option after its children instead of before them
RECURSIVE flatten_children_first(_, _)
flatten_children_first(opts, parent) ==
    IF opts = <<>> THEN <<>>
    ELSE LET opt == Head(opts)
             prefix == IF parent # <<>> THEN <<"[">> \o parent \o <<"]", " ">> ELSE <<>>
         IN (IF opt.children # <<>>
             THEN flatten_children_first(opt.children, opt.label) ELSE <<>>)
            \o <<prefix \o opt.value>>
            \o flatten_children_first(Tail(opts), parent)

\* the nested flatten(opts, parent): the entries it appends, in order
RECURSIVE flatten(_, _)
flatten(opts, parent) ==
    IF opts = <<>> THEN <<>>
    ELSE LET opt == Head(opts)
             prefix == IF parent # <<>> THEN <<"[">> \o parent \o <<"]", " ">> ELSE <<>>
         IN <<prefix \o opt.value>>
            \o (IF opt.children # <<>> THEN flatten(opt.children, opt.label) ELSE <<>>)
            \o flatten(Tail(opts), parent)

\* s[:n] of a list
Take(ss, n) == SubSeq(ss, 1, IF Len(ss) < n THEN Len(ss) ELSE n)

\* field_desc of one field
FieldDesc(field) ==
    LET head == <<"-", " ">> \o field.key \o <<":", " ">> \o field.label
                \o (IF field.required THEN <<" ", "(", "u5FC5", "u586B", ")">> ELSE <<>>)
        flat_options == flatten(field.options, <<>>)
    IN IF field.options # <<>> /\ flat_options # <<>>
       THEN head \o <<"\n", " ", " ", "u53EF", "u9009", "u503C", ":", " ">> \o Join(<<",", " ">>, Take(flat_options, OptionLimit))
            \o (IF Len(flat_options) > OptionLimit
                THEN <<" ", ".", ".", ".", " ", "u7B49", "u5171">> \o IntToStr(Len(flat_options)) \o <<"u4E2A", "u9009", "u9879">>
                ELSE <<>>)
       ELSE head

\* "\n".join(fields_info)
BuildFieldsInfo(fields) ==
    Join(<<"\n">>, [i \in 1..Len(fields) |-> FieldDesc(fields[i])])

-----------------------------------------------------------------------------
(* call_hunyuan_api: prompt selection *)

SelectPrompt(c) ==
    IF c = "invest" THEN "INVEST_LEGAL_PROMPT"
    ELSE IF c = "corp" THEN "CORP_INTL_PROMPT"
    ELSE IF c = "biz" THEN "BIZ_COMPLIANCE_PROMPT"
    ELSE "BIZ_COMPLIANCE_PROMPT"

\* the hours clause decided by the presence of a digit in the message
HoursRule_digits(user_message) ==
    IF \E i \in 1..Len(user_message) : user_message[i] \in Digit THEN "convert" ELSE "omit"

\* which text hours_rule gets: the conversion rule or the "never return hours" rule
HoursRule(user_message) ==
    IF check_hours_mentioned(user_message) THEN "convert" ELSE "omit"

-----------------------------------------------------------------------------
(* call_hunyuan_api: reading the completion *)

\* content.split("\n")
RECURSIVE Split(_)
Split(s) ==
    LET j == FindClass(s, 1, {"\n"})
    IN IF j > Len(s) THEN <<s>>
       ELSE <<SubSeq(s, 1, j - 1)>> \o Split(SubSeq(s, j + 1, Len(s)))

\* the fence removal: lines[1:-1] when the text starts with a fence and has more than two lines
StripFence(content) ==
    IF StartsWith(content, <<"u0060", "u0060", "u0060">>)
    THEN LET lines == Split(content)
         IN IF Len(lines) > 2
            THEN Join(<<"\n">>, SubSeq(lines, 2, Len(lines) - 1))
            ELSE content
    ELSE content

\* the leading "json" marker: content[4:].strip()
StripJsonMarker(content) ==
    IF StartsWith(content, <<"j", "s", "o", "n">>)
    THEN Strip(SubSeq(content, 5, Len(content)))
    ELSE content

\* `content` as handed to json.loads
CleanContent(content) == StripJsonMarker(Strip(StripFence(Strip(content))))

(* The text of a JSON value inside a completion is one element:            *)
(*   "<object>"                      a whole JSON object                   *)
(*   "<object-head>" "<object-tail>" the same object written over lines    *)
(*   "<array>"                       a JSON array (valid JSON, no object)  *)
(* json.loads ignores white space around and between these; any other     *)
(* character makes it raise JSONDecodeError.                               *)
JsonLoads(content) ==
    LET t == SelectSeq(content, LAMBDA c : c \notin Space)
    IN IF t = <<"<object>">> \/ t = <<"<object-head>", "<object-tail>">> THEN "object"
       ELSE IF t = <<"<array>">> THEN "array"
       ELSE "JSONDecodeError"

-----------------------------------------------------------------------------
(* call_hunyuan_api: post-filter *)

\* A JSON value of the model's object: a string (t = "str", characters in s)
\* or a number (t = "num", n in thousandths: 2500 is 2.5).
StrVal(s) == [t |-> "str", s |-> s, n |-> 0]

NumVal(n) == [t |-> "num", s |-> <<>>, n |-> n]

\* the prefix matched greedily, up to the last closing bracket of the line
StripBracketPrefix_greedy(value) ==
    LET eol == FindClass(value, 1, {"\n"})
        RECURSIVE LastClose(_)
        LastClose(j) == IF j >= 2 /\ value[j] # "]" THEN LastClose(j - 1) ELSE j
        j == LastClose(eol - 1)
    IN IF value # <<>> /\ value[1] = "[" /\ j >= 2
       THEN SubSeq(value, SkipClass(value, j + 1, Space), Len(value))
       ELSE value

\* re.sub(r'^\[.*?\]\s*', '', value): '.' does not match a line break
StripBracketPrefix(value) ==
    LET j == FindClass(value, 2, {"]", "\n"})
    IN IF value # <<>> /\ value[1] = "[" /\ j <= Len(value) /\ value[j] = "]"
       THEN SubSeq(value, SkipClass(value, j + 1, Space), Len(value))
       ELSE value

\* the loop over parsed_data.items() that cleans string values
CleanValues(parsed_data) ==
    [key \in DOMAIN parsed_data |->
        IF parsed_data[key].t = "str"
        THEN StrVal(StripBracketPrefix(parsed_data[key].s))
        ELSE parsed_data[key]]

\* del parsed_data[key]
Del(parsed_data, key) == [k \in DOMAIN parsed_data \ {key} |-> parsed_data[k]]

\* the hours gate left out
HoursGate_off(user_message, parsed_data) == parsed_data

\* the hours gate removing hours whatever the message holds
HoursGate_always(user_message, parsed_data) ==
    IF "hours" \in DOMAIN parsed_data THEN Del(parsed_data, "hours") ELSE parsed_data

HoursGate(user_message, parsed_data) ==
    IF ~check_hours_mentioned(user_message) /\ "hours" \in DOMAIN parsed_data
    THEN Del(parsed_data, "hours")
    ELSE parsed_data

team_keywords ==
    << <<"u5C0F", "u7EC4">>, <<"u56E2", "u961F">>, <<"t", "e", "a", "m">>, <<"1", "u7EC4">>, <<"2", "u7EC4">>, <<"3", "u7EC4">>, <<"4", "u7EC4">>, <<"5", "u7EC4">>,
       <<"u4E00", "u7EC4">>, <<"u4E8C", "u7EC4">>, <<"u4E09", "u7EC4">>, <<"u56DB", "u7EC4">>, <<"u4E94", "u7EC4">>, <<"g", "r", "o", "u", "p">> >>

\* the team gate run on the message as typed, not lowercased
TeamGate_case_sensitive(user_message, parsed_data) ==
    IF ~AnyKeyword(team_keywords, user_message)
    THEN IF "team" \in DOMAIN parsed_data THEN Del(parsed_data, "team") ELSE parsed_data
    ELSE parsed_data

TeamGate(user_message, parsed_data) ==
    LET user_msg_lower == Lower(user_message)
    IN IF ~AnyKeyword(team_keywords, user_msg_lower)
       THEN IF "team" \in DOMAIN parsed_data THEN Del(parsed_data, "team") ELSE parsed_data
       ELSE parsed_data

PostFilter(user_message, parsed_data) ==
    TeamGate(user_message, HoursGate(user_message, CleanValues(parsed_data)))

-----------------------------------------------------------------------------
(* call_hunyuan_api: the answer built from what the upstream call produced *)

ErrNoKey == "API key not configured"       \* line 206
ErrTimeout == "API request timed out"      \* line 314
ErrFormat == "API response format anomaly" \* line 311
ErrApi == "API error"                      \* line 309, default of .get("message", ...)

EmptyObject == [k \in {} |-> StrVal(<<>>)]

(* up.exc      exception raised by requests.post / response.json(), or "none" *)
(* up.choices  "absent", "empty", "malformed" (a choice without message/     *)
(*             content) or "ok"                                              *)
(* up.content  choices[0].message.content                                    *)
(* up.object   the JSON object whose text the content holds                  *)
(* up.error    "absent", "message" (object with message), "nomessage"        *)
(*             (object without) or "string" (not an object)                  *)
(* up.errmsg   error.message                                                 *)

\* every exception reported like any other, the timeout included
ExceptionAnswer_generic(exc) == [success |-> FALSE, error |-> exc]

\* the two except clauses: Timeout, then Exception with str(e)
ExceptionAnswer(exc) ==
    IF exc = "Timeout" THEN [success |-> FALSE, error |-> ErrTimeout]
    ELSE [success |-> FALSE, error |-> exc]

\* a reply that is not JSON reported as a failure
ParseErrorAnswer_failure(content) == [success |-> FALSE, error |-> "JSONDecodeError"]

\* except json.JSONDecodeError
ParseErrorAnswer(content) ==
    [success |-> TRUE, data |-> EmptyObject, raw |-> content, parse_error |-> TRUE]

\* the try block over choices[0].message.content
CompletionAnswer(user_message, up) ==
    LET content == CleanContent(up.content)
        loaded == JsonLoads(content)
    IN IF loaded = "JSONDecodeError" THEN ParseErrorAnswer(content)
       ELSE IF loaded = "array"
       THEN ExceptionAnswer("AttributeError")    \* a list has no items()
       ELSE [success |-> TRUE, data |-> PostFilter(user_message, up.object),
             raw |-> content]

\* the result has no non-empty choices
NoCompletionAnswer(up) ==
    IF up.error = "message" THEN [success |-> FALSE, error |-> up.errmsg]
    ELSE IF up.error = "nomessage" THEN [success |-> FALSE, error |-> ErrApi]
    ELSE IF up.error = "string"
    THEN ExceptionAnswer("AttributeError")       \* a str has no get()
    ELSE [success |-> FALSE, error |-> ErrFormat]

HandleUpstream(user_message, up) ==
    IF up.exc # "none" THEN ExceptionAnswer(up.exc)
    ELSE IF up.choices = "malformed" THEN ExceptionAnswer("KeyError")
    ELSE IF up.choices = "ok" THEN CompletionAnswer(user_message, up)
    ELSE NoCompletionAnswer(up)

-----------------------------------------------------------------------------
(* Feedback recorder: the table ai_feedback and the AIFeedback operations *)

(* A JSON document handed to or stored by the recorder:                    *)
(*   kind "object"  a JSON object, members maps its keys to values         *)
(*   kind "array"   valid JSON that is no object                           *)
(*   kind "null"    Python None: the member is missing or null             *)
(* A value of an object is StrVal, NumVal (a float), IntVal or NullVal.    *)
JsonObject(members) == [kind |-> "object", members |-> members]

JsonArray == [kind |-> "array", members |-> EmptyObject]

JsonNull == [kind |-> "null", members |-> EmptyObject]

\* a JSON integer, read by Python as an int
IntVal(i) == [t |-> "int", s |-> <<>>, n |-> i * 1000]

\* a JSON null inside an object
NullVal == [t |-> "null", s |-> <<>>, n |-> 0]

\* json.loads(json.dumps(document)): the text column holds the document
JsonDumps(document) == [text |-> document]

JsonLoadsText(column) == column.text

\* SQL NULL in a text column and in a timestamp column
NullText == [text |-> JsonNull]

NullTime == -1

\* DATE(created_at): the clock counts ticks, TicksPerDay of them in a day
TicksPerDay == 2

Date(timestamp) == timestamp \div TicksPerDay

(* The column accuracy is a REAL; the model keeps the exact quotient       *)
(* num / den.  The thresholds 50 and 80 and the values 0 and 100 are       *)
(* decided alike by the exact quotient and by the double the code stores.  *)
Rational(num, den) == [num |-> num, den |-> den]

Zero == Rational(0, 1)

RatLess(a, b) == a.num * b.den < b.num * a.den

RatEqual(a, b) == a.num * b.den = b.num * a.den

RatAdd(a, b) == Rational(a.num * b.den + b.num * a.den, a.den * b.den)

Percent(n) == Rational(n, 1)

\* abs()
Abs(x) == IF x < 0 THEN -x ELSE x

\* the digits of a natural number, padded with zeros to a width
RECURSIVE Digits(_, _)
Digits(n, width) ==
    IF width = 0 THEN <<>> ELSE Digits(n \div 10, width - 1) \o IntToStr(n % 10)

\* the text without its trailing zeros
RECURSIVE StripZeros(_)
StripZeros(ds) ==
    IF ds # <<>> /\ ds[Len(ds)] = "0" THEN StripZeros(SubSeq(ds, 1, Len(ds) - 1)) ELSE ds

\* str() of a non-negative float with at most three decimals: "2.5", "2.0", "0.005"
FloatStr(n) ==
    LET frac == StripZeros(Digits(n % 1000, 3))
    IN IntToStr(n \div 1000) \o <<".">> \o (IF frac = <<>> THEN <<"0">> ELSE frac)

\* str(value)
PyStr(value) ==
    CASE value.t = "str" -> value.s
      [] value.t = "int" -> IntToStr(value.n \div 1000)
      [] value.t = "num" -> FloatStr(value.n)
      [] value.t = "null" -> <<"N", "o", "n", "e">>

\* isinstance(value, (int, float))
IsNumber(value) == value.t \in {"int", "num"}

\* the tolerance 0.01 of the numeric comparison, in thousandths.  A number of the
\* model stands for the double the program holds; two decimals written exactly
\* 0.01 apart are doubles a little less or a little more than 0.01 apart (2.5
\* and 2.51, 1.0 and 1.01), so the inputs hold no such pair other than 0 and
\* 0.01, whose difference is the double 0.01 itself.
MatchTolerance == 10

\* the keys left out of the comparison
SkippedKeys == {"description"}

\* the comparison with numbers compared for equality, without the tolerance
ValuesMatch_exact(ai_value, final_value) ==
    IF IsNumber(ai_value) /\ IsNumber(final_value)
    THEN ai_value.n = final_value.n
    ELSE Strip(PyStr(ai_value)) = Strip(PyStr(final_value))

\* the body of "if final_value is not None": does the pair count as matched
ValuesMatch(ai_value, final_value) ==
    IF IsNumber(ai_value) /\ IsNumber(final_value)
    THEN Abs(ai_value.n - final_value.n) < MatchTolerance
    ELSE Strip(PyStr(ai_value)) = Strip(PyStr(final_value))

\* final_result.get(key) is not None and the values match
KeyMatched(ai_result, final_result, key) ==
    /\ key \in DOMAIN final_result
    /\ final_result[key].t # "null"
    /\ ValuesMatch(ai_result[key], final_result[key])

\* field_count after the loop over ai_result.items()
FieldCount(ai_result) == Cardinality(DOMAIN ai_result \ SkippedKeys)

\* matched_count after the loop
MatchedCount(ai_result, final_result) ==
    Cardinality({key \in DOMAIN ai_result \ SkippedKeys :
                    KeyMatched(ai_result, final_result, key)})

\* the accuracy computed without the guard on field_count: 0/0 has no value, it
\* is shown here as the quotient 100/1
Accuracy_unguarded(matched_count, field_count) ==
    IF field_count > 0 THEN Rational(matched_count * 100, field_count)
    ELSE Rational(100, 1)

\* (matched_count / field_count * 100) if field_count > 0 else 0
Accuracy(matched_count, field_count) ==
    IF field_count > 0 THEN Rational(matched_count * 100, field_count) ELSE Zero

\* the rows of a session
SessionRows(table, session_id) ==
    {i \in 1..Len(table) : table[i].session_id = session_id}

\* the largest number of a non-empty set
Max(S) == CHOOSE x \in S : \A y \in S : y <= x

\* an id taken again from the rows of the table
NextId_reused(table) == IF table = <<>> THEN 1 ELSE Len(table)

\* INTEGER PRIMARY KEY AUTOINCREMENT: one more than the largest id ever used; no
\* statement deletes from ai_feedback, so that is the largest id in the table
NextId(table) ==
    IF table = <<>> THEN 1 ELSE Max({table[i].id : i \in 1..Len(table)}) + 1

\* AIFeedback.create: the table after the INSERT; the columns not listed take
\* their defaults
AIFeedback_create(table, user_id, session_id, user_input, ai_result, timestamp) ==
    Append(table,
           [id |-> NextId(table), user_id |-> user_id, session_id |-> session_id,
            user_input |-> user_input, ai_result |-> JsonDumps(ai_result),
            final_result |-> NullText, field_count |-> 0, matched_count |-> 0,
            accuracy |-> Zero, timesheet_id |-> None, created_at |-> timestamp,
            submitted_at |-> NullTime])

\* SELECT ai_result ... WHERE session_id = ? ORDER BY id DESC LIMIT 1: the index
\* of the row, 0 when there is none
LatestRow(table, session_id) ==
    IF SessionRows(table, session_id) = {} THEN 0
    ELSE CHOOSE i \in SessionRows(table, session_id) :
             \A j \in SessionRows(table, session_id) : table[j].id <= table[i].id

\* the values the UPDATE statement sets, computed from the row that was read
FinalColumns(ai_result, final_result, timesheet_id, timestamp) ==
    LET field_count == FieldCount(ai_result)
        matched_count == MatchedCount(ai_result, final_result)
    IN [final_result |-> JsonDumps(JsonObject(final_result)),
        field_count |-> field_count,
        matched_count |-> matched_count,
        accuracy |-> Accuracy(matched_count, field_count),
        timesheet_id |-> timesheet_id,
        submitted_at |-> timestamp]

\* the UPDATE replaced by keeping one row per session: the earlier rows of the
\* session are deleted
UpdateSession_replacing(table, session_id, columns) ==
    LET latest == LatestRow(table, session_id)
        kept == SelectSeq([i \in 1..Len(table) |-> [row |-> table[i], at |-> i]],
                          LAMBDA e : e.row.session_id # session_id \/ e.at = latest)
    IN [i \in 1..Len(kept) |->
           IF kept[i].row.session_id = session_id
           THEN [kept[i].row EXCEPT !.final_result = columns.final_result,
                                    !.field_count = columns.field_count,
                                    !.matched_count = columns.matched_count,
                                    !.accuracy = columns.accuracy,
                                    !.timesheet_id = columns.timesheet_id,
                                    !.submitted_at = columns.submitted_at]
           ELSE kept[i].row]

\* an UPDATE that leaves the rows alone that were finalized before
UpdateSession_pending_only(table, session_id, columns) ==
    [i \in 1..Len(table) |->
        IF table[i].session_id = session_id /\ table[i].submitted_at = NullTime
        THEN [table[i] EXCEPT !.final_result = columns.final_result,
                              !.field_count = columns.field_count,
                              !.matched_count = columns.matched_count,
                              !.accuracy = columns.accuracy,
                              !.timesheet_id = columns.timesheet_id,
                              !.submitted_at = columns.submitted_at]
        ELSE table[i]]

\* UPDATE ai_feedback SET ... WHERE session_id = ?
UpdateSession(table, session_id, columns) ==
    [i \in 1..Len(table) |->
        IF table[i].session_id = session_id
        THEN [table[i] EXCEPT !.final_result = columns.final_result,
                              !.field_count = columns.field_count,
                              !.matched_count = columns.matched_count,
                              !.accuracy = columns.accuracy,
                              !.timesheet_id = columns.timesheet_id,
                              !.submitted_at = columns.submitted_at]
        ELSE table[i]]

\* a finalize that fails when the session has no record
AIFeedback_update_final_result_strict(table, session_id, final_result, timesheet_id, timestamp) ==
    LET row == LatestRow(table, session_id)
        ai_result == JsonLoadsText(table[row].ai_result)
    IN IF row = 0 THEN [table |-> table, exc |-> "LookupError"]
       ELSE IF ai_result.kind # "object" THEN [table |-> table, exc |-> "AttributeError"]
       ELSE [table |-> UpdateSession(table, session_id,
                           FinalColumns(ai_result.members, final_result,
                                        timesheet_id, timestamp)),
             exc |-> "none"]

\* AIFeedback.update_final_result: the table afterwards and the exception raised
\* ("none" when it returns); a stored document that is no object has no items()
AIFeedback_update_final_result(table, session_id, final_result, timesheet_id, timestamp) ==
    LET row == LatestRow(table, session_id)
        ai_result == JsonLoadsText(table[row].ai_result)
    IN IF row = 0 THEN [table |-> table, exc |-> "none"]
       ELSE IF ai_result.kind # "object" THEN [table |-> table, exc |-> "AttributeError"]
       ELSE [table |-> UpdateSession(table, session_id,
                           FinalColumns(ai_result.members, final_result,
                                        timesheet_id, timestamp)),
             exc |-> "none"]

\* WHERE submitted_at IS NOT NULL
Finalized(row) == row.submitted_at # NullTime

\* a request argument that was not given: no date, no user
NoDate == -1

NoUser == 0

\* the aggregation reading the pending rows as well
StatisticsRows_all(table, start_date, end_date, user_id) ==
    {i \in 1..Len(table) :
        /\ start_date # NoDate => Date(table[i].created_at) >= start_date
        /\ end_date # NoDate => Date(table[i].created_at) <= end_date
        /\ user_id # NoUser => table[i].user_id = user_id}

\* the WHERE clause of get_statistics: the indices of the rows it aggregates
StatisticsRows(table, start_date, end_date, user_id) ==
    {i \in 1..Len(table) :
        /\ Finalized(table[i])
        /\ start_date # NoDate => Date(table[i].created_at) >= start_date
        /\ end_date # NoDate => Date(table[i].created_at) <= end_date
        /\ user_id # NoUser => table[i].user_id = user_id}

\* SUM(column) over a set of rows, 0 for SUM of nothing (NULL or 0)
RECURSIVE SumOver(_, _, _)
SumOver(table, rows, column) ==
    IF rows = {} THEN 0
    ELSE LET i == CHOOSE i \in rows : TRUE
         IN table[i][column] + SumOver(table, rows \ {i}, column)

\* the exact sum of the accuracies of a set of rows
RECURSIVE SumAccuracy(_, _)
SumAccuracy(table, rows) ==
    IF rows = {} THEN Zero
    ELSE LET i == CHOOSE i \in rows : TRUE
         IN RatAdd(table[i].accuracy, SumAccuracy(table, rows \ {i}))

\* round(x, 2) of a non-negative quotient, in hundredths (7500 is 75.0); a tie
\* goes to the even neighbour
Round2(x) ==
    LET scaled == x.num * 100
        q == scaled \div x.den
        r == scaled % x.den
    IN IF 2 * r < x.den THEN q
       ELSE IF 2 * r > x.den THEN q + 1
       ELSE IF q % 2 = 0 THEN q ELSE q + 1

\* round(AVG(accuracy) or 0, 2) over a set of rows
AvgAccuracy(table, rows) ==
    IF rows = {} THEN 0
    ELSE LET sum == SumAccuracy(table, rows)
         IN Round2(Rational(sum.num, sum.den * Cardinality(rows)))

\* AIFeedback.get_statistics
AIFeedback_get_statistics(table, start_date, end_date, user_id) ==
    LET rows == StatisticsRows(table, start_date, end_date, user_id)
        acc(i) == table[i].accuracy
    IN [totalSessions |-> Cardinality(rows),
        avgAccuracy |-> AvgAccuracy(table, rows),
        totalFields |-> SumOver(table, rows, "field_count"),
        totalMatched |-> SumOver(table, rows, "matched_count"),
        highAccuracyCount |->
            Cardinality({i \in rows : ~RatLess(acc(i), Percent(80))}),
        mediumAccuracyCount |->
            Cardinality({i \in rows : ~RatLess(acc(i), Percent(50))
                                       /\ RatLess(acc(i), Percent(80))}),
        lowAccuracyCount |->
            Cardinality({i \in rows : RatLess(acc(i), Percent(50))})]

\* the groups of get_daily_statistics: the dates, latest first, of the finalized
\* rows created since DATE('now', '-N days')
RECURSIVE Descending(_)
Descending(S) ==
    IF S = {} THEN <<>> ELSE <<Max(S)>> \o Descending(S \ {Max(S)})

\* AIFeedback.get_daily_statistics
AIFeedback_get_daily_statistics(table, now, days) ==
    LET rows == {i \in 1..Len(table) :
                    Finalized(table[i]) /\ Date(table[i].created_at) >= Date(now) - days}
        dates == Descending({Date(table[i].created_at) : i \in rows})
        OfDate(d) == {i \in rows : Date(table[i].created_at) = d}
    IN [k \in 1..Len(dates) |->
           [date |-> dates[k],
            sessions |-> Cardinality(OfDate(dates[k])),
            avgAccuracy |-> AvgAccuracy(table, OfDate(dates[k])),
            totalFields |-> SumOver(table, OfDate(dates[k]), "field_count"),
            totalMatched |-> SumOver(table, OfDate(dates[k]), "matched_count")]]

\* the users table as far as the LEFT JOIN of get_recent_feedbacks reads it
UserName(user_id) == IF user_id = 1 THEN "u1" ELSE IF user_id = 2 THEN "u2" ELSE None

\* the orders ORDER BY created_at DESC allows for a set of rows: rows created at
\* the same time come in either order
RECURSIVE RecentOrders(_, _)
RecentOrders(table, rows) ==
    IF rows = {} THEN {<<>>}
    ELSE UNION {{<<i>> \o rest : rest \in RecentOrders(table, rows \ {i})} :
                   i \in {r \in rows : \A o \in rows :
                                          table[o].created_at <= table[r].created_at}}

\* one entry of the list get_recent_feedbacks returns
RecentEntry(row) ==
    [id |-> row.id, userId |-> row.user_id, username |-> UserName(row.user_id),
     sessionId |-> row.session_id, userInput |-> row.user_input,
     aiResult |-> JsonLoadsText(row.ai_result),
     finalResult |-> JsonLoadsText(row.final_result),
     fieldCount |-> row.field_count, matchedCount |-> row.matched_count,
     accuracy |-> row.accuracy, createdAt |-> row.created_at,
     submittedAt |-> row.submitted_at]

\* AIFeedback.get_recent_feedbacks: the lists it can return
AIFeedback_get_recent_feedbacks(table, limit) ==
    LET rows == {i \in 1..Len(table) : Finalized(table[i])}
    IN {[k \in 1..Len(Take(order, limit)) |-> RecentEntry(table[order[k]])] :
           order \in RecentOrders(table, rows)}

-----------------------------------------------------------------------------
(* The /parse request as a state machine *)

NoBody == [json |-> "none", message |-> <<>>, fields |-> <<>>, center |-> None,
           teamName |-> <<>>]

NoUpstream == [exc |-> "none", choices |-> "absent", content |-> <<>>,
               object |-> EmptyObject, error |-> "absent", errmsg |-> ""]

NoResp == [k \in {} |-> FALSE]

NoFeedbackRequest == [op |-> "none"]

\* a table without rows, as a function of the primary key
NoRows == <<>>

\* no request handled yet
NoRequest == [op |-> "none"]

\* the calls of update_final_result that can be in progress at a time
Calls == {1, 2}

\* no call in progress
NoCall == [pc |-> "idle", session_id |-> None, final_result |-> EmptyObject,
           timesheet_id |-> None, row |-> FALSE, ai_result |-> NullText]

\* the rows _init_default_data inserts into the empty tables
DefaultDepartments ==
    [d \in {"dept-001"} |-> [name |-> "u5408u89C4u4EA4u6613u90E8"]]

DefaultTeams ==
    [t \in {"team-001", "team-002", "team-003"} |->
        [name |-> CASE t = "team-001" -> "u4E1Au52A1u7BA1u7406u53CAu5408u89C4u68C0u6D4Bu4E2Du5FC3"
                    [] t = "team-002" -> "u6295u8D44u6CD5u52A1u4E2Du5FC3"
                    [] t = "team-003" -> "u516Cu53F8u53CAu56FDu9645u91D1u878Du4E8Bu52A1u4E2Du5FC3",
         department_id |-> "dept-001"]]

DefaultGroups ==
    [g \in {"group-001", "group-002", "group-003", "group-004", "group-005", "group-006"} |->
        [name |-> CASE g = "group-001" -> "1u7EC4"
                    [] g = "group-002" -> "2u7EC4"
                    [] g = "group-003" -> "3u7EC4"
                    [] g = "group-004" -> "4u7EC4"
                    [] g = "group-005" -> "5u7EC4"
                    [] g = "group-006" -> "6u7EC4",
         team_id |-> "team-002"]]

\* the users of the table users: user 1 and the administrator, user 2
Users == {1, 2}

\* a server thread that has served no organization request yet
NoOrgCall == [pc |-> "idle", op |-> "none", id |-> None, status |-> 0]

Init ==
    /\ HUNYUAN_API_KEY \in {"", "sk"}
    /\ pc = "idle"
    /\ body = NoBody
    /\ center = None
    /\ fields_info = <<>>
    /\ business_prompt = "none"
    /\ hours_rule = "none"
    /\ posts = 0
    /\ upstream = NoUpstream
    /\ status = 0
    /\ resp = NoResp
    /\ ai_feedback = <<>>
    /\ clock = 0
    /\ fb_pc = "idle"
    /\ fb_request = NoFeedbackRequest
    /\ fb_status = 0
    /\ fb_resp = NoResp
    /\ finalize = [p \in Calls |-> NoCall]
    /\ timesheet_entries = NoRows
    /\ ts_pc = "idle"
    /\ ts_request = NoRequest
    /\ ts_status = 0
    /\ db_locked = FALSE
    /\ departments = DefaultDepartments
    /\ teams = DefaultTeams
    /\ groups_table = DefaultGroups
    /\ org = [p \in Calls |-> NoOrgCall]
    /\ system_config = [key \in {"ai_mode"} |-> "off"]
    /\ ai_enabled = [u \in Users |-> 0]
    /\ cfg_pc = "idle"
    /\ cfg_request = NoRequest
    /\ cfg_status = 0
    /\ cfg_resp = NoResp
    /\ templates = <<>>
    /\ templates_seq = 0
    /\ tpl_pc = "idle"
    /\ tpl_request = NoRequest
    /\ tpl_status = 0
    /\ tpl_resp = NoResp

\* parse_timesheet up to the blocking requests.post inside call_hunyuan_api
ParseTimesheet(b) ==
    /\ pc = "idle"
    /\ body' = b
    /\ UNCHANGED <<HUNYUAN_API_KEY, upstream>>
    /\ UNCHANGED outside_parse
    /\ IF b.json # "object"
       THEN /\ resp' = [success |-> FALSE, message |-> "request data is empty"]
            /\ status' = 400
            /\ pc' = "done"
            /\ UNCHANGED <<center, fields_info, business_prompt, hours_rule, posts>>
       ELSE IF b.message = <<>>
       THEN /\ resp' = [success |-> FALSE, message |-> "message content is empty"]
            /\ status' = 400
            /\ pc' = "done"
            /\ UNCHANGED <<center, fields_info, business_prompt, hours_rule, posts>>
       ELSE LET c1 == InferCenterFromTeam(b.center, b.teamName)
                fields_info_str == BuildFieldsInfo(b.fields)
                c2 == IF c1 = None
                      THEN detect_center_from_message(b.message, fields_info_str)
                      ELSE c1
            IN /\ fields_info' = fields_info_str
               /\ IF HUNYUAN_API_KEY = ""
                  THEN /\ resp' = [success |-> FALSE, error |-> ErrNoKey]
                       /\ status' = 200
                       /\ pc' = "done"
                       /\ center' = c1
                       /\ UNCHANGED <<business_prompt, hours_rule, posts>>
                  ELSE /\ center' = c2
                       /\ business_prompt' = SelectPrompt(c2)
                       /\ hours_rule' = HoursRule(b.message)
                       /\ posts' = posts + 1
                       /\ pc' = "awaiting"
                       /\ UNCHANGED <<status, resp>>

\* a failed upstream call issued a second time before the answer is built
UpstreamReturns_retry(up) ==
    /\ pc = "awaiting"
    /\ upstream' = up
    /\ IF up.exc # "none" /\ posts < 2
       THEN /\ posts' = posts + 1
            /\ UNCHANGED <<pc, status, resp>>
       ELSE /\ resp' = HandleUpstream(body.message, up)
            /\ status' = 200
            /\ pc' = "done"
            /\ UNCHANGED posts
    /\ UNCHANGED <<HUNYUAN_API_KEY, body, center, fields_info, business_prompt, hours_rule>>
    /\ UNCHANGED outside_parse

\* requests.post returns or raises; call_hunyuan_api builds the answer, /parse returns it
UpstreamReturns(up) ==
    /\ pc = "awaiting"
    /\ upstream' = up
    /\ resp' = HandleUpstream(body.message, up)
    /\ status' = 200
    /\ pc' = "done"
    /\ UNCHANGED <<HUNYUAN_API_KEY, body, center, fields_info, business_prompt,
                   hours_rule, posts>>
    /\ UNCHANGED outside_parse

\* the request is over; the next one starts from nothing (no state is shared)
NextRequest ==
    /\ pc = "done"
    /\ pc' = "idle"
    /\ body' = NoBody
    /\ center' = None
    /\ fields_info' = <<>>
    /\ business_prompt' = "none"
    /\ hours_rule' = "none"
    /\ posts' = 0
    /\ upstream' = NoUpstream
    /\ status' = 0
    /\ resp' = NoResp
    /\ UNCHANGED HUNYUAN_API_KEY
    /\ UNCHANGED outside_parse

-----------------------------------------------------------------------------
(* The feedback endpoints as a state machine: each handler is one step *)

\* the Authorization header as verify_token reads it
Token(user_id, admin) == [valid |-> TRUE, user_id |-> user_id, admin |-> admin]

NoToken == [valid |-> FALSE, user_id |-> 0, admin |-> FALSE]

\* a refused request answered as a success
FeedbackRejected_accepted(code, message) ==
    /\ fb_status' = 200
    /\ fb_resp' = [success |-> TRUE, message |-> message]
    /\ UNCHANGED ai_feedback

\* the answer of a handler that changes nothing
FeedbackRejected(code, message) ==
    /\ fb_status' = code
    /\ fb_resp' = [success |-> FALSE, message |-> message]
    /\ UNCHANGED ai_feedback

\* POST /record
RecordAiResult(token, data) ==
    /\ fb_pc = "idle"
    /\ fb_pc' = "done"
    /\ fb_request' = [op |-> "record", token |-> token, data |-> data]
    /\ UNCHANGED clock
    /\ UNCHANGED outside_feedback
    /\ IF ~token.valid THEN FeedbackRejected(401, "token missing or invalid")
       ELSE IF data.json # "object" THEN FeedbackRejected(400, "request data is empty")
       ELSE IF Falsy(data.sessionId) \/ Falsy(data.userInput) \/ data.aiResult.kind = "null"
       THEN FeedbackRejected(400, "required parameter missing")
       ELSE /\ ai_feedback' = AIFeedback_create(ai_feedback, token.user_id, data.sessionId,
                                                data.userInput, data.aiResult, clock)
            /\ fb_status' = 200
            /\ fb_resp' = [success |-> TRUE,
                           data |-> [feedbackId |-> ai_feedback'[Len(ai_feedback')].id]]

\* POST /submit
SubmitFinalResult(token, data) ==
    /\ fb_pc = "idle"
    /\ fb_pc' = "done"
    /\ fb_request' = [op |-> "submit", token |-> token, data |-> data]
    /\ UNCHANGED clock
    /\ UNCHANGED outside_feedback
    /\ IF ~token.valid THEN FeedbackRejected(401, "token missing or invalid")
       ELSE IF data.json # "object" THEN FeedbackRejected(400, "request data is empty")
       ELSE IF Falsy(data.sessionId) \/ data.finalResult.kind = "null"
       THEN FeedbackRejected(400, "required parameter missing")
       ELSE LET updated == AIFeedback_update_final_result(
                               ai_feedback, data.sessionId, data.finalResult.members,
                               data.timesheetId, clock)
            IN /\ ai_feedback' = updated.table
               /\ IF updated.exc = "none"
                  THEN /\ fb_status' = 200
                       /\ fb_resp' = [success |-> TRUE, message |-> "AI feedback recorded"]
                  ELSE /\ fb_status' = 500
                       /\ fb_resp' = [success |-> FALSE, message |-> updated.exc]

\* the window of the daily statistics the endpoint asks for
DailyWindow == 30

\* GET /statistics, for administrators only
GetStatistics(token, start_date, end_date, user_id) ==
    /\ fb_pc = "idle"
    /\ fb_pc' = "done"
    /\ fb_request' = [op |-> "statistics", token |-> token, startDate |-> start_date,
                      endDate |-> end_date, userId |-> user_id]
    /\ UNCHANGED clock
    /\ UNCHANGED outside_feedback
    /\ IF ~token.valid THEN FeedbackRejected(401, "token missing or invalid")
       ELSE IF ~token.admin THEN FeedbackRejected(403, "administrator required")
       ELSE /\ fb_status' = 200
            /\ fb_resp' =
                   [success |-> TRUE,
                    data |-> [summary |-> AIFeedback_get_statistics(
                                              ai_feedback, start_date, end_date, user_id),
                              daily |-> AIFeedback_get_daily_statistics(
                                            ai_feedback, clock, DailyWindow)]]
            /\ UNCHANGED ai_feedback

\* GET /recent, for administrators only
GetRecentFeedbacks(token, limit) ==
    /\ fb_pc = "idle"
    /\ fb_pc' = "done"
    /\ fb_request' = [op |-> "recent", token |-> token, limit |-> limit]
    /\ UNCHANGED clock
    /\ UNCHANGED outside_feedback
    /\ IF ~token.valid THEN FeedbackRejected(401, "token missing or invalid")
       ELSE IF ~token.admin THEN FeedbackRejected(403, "administrator required")
       ELSE /\ fb_status' = 200
            /\ \E feedbacks \in AIFeedback_get_recent_feedbacks(ai_feedback, limit) :
                   fb_resp' = [success |-> TRUE, data |-> feedbacks]
            /\ UNCHANGED ai_feedback

\* the feedback request is over; only the table outlives it
NextFeedbackRequest ==
    /\ fb_pc = "done"
    /\ fb_pc' = "idle"
    /\ fb_request' = NoFeedbackRequest
    /\ fb_status' = 0
    /\ fb_resp' = NoResp
    /\ UNCHANGED <<ai_feedback, clock>>
    /\ UNCHANGED outside_feedback

\* time passes between two requests; the model's clock stops at a limit
Tick(limit) ==
    /\ fb_pc = "idle"
    /\ clock < limit
    /\ clock' = clock + 1
    /\ UNCHANGED <<ai_feedback, fb_pc, fb_request, fb_status, fb_resp>>
    /\ UNCHANGED outside_feedback

(* Two calls of update_final_result run in two requests at a time.  A call  *)
(* opens its own connection; its SELECT runs outside a transaction and its *)
(* UPDATE in a transaction of its own, so the statements of other requests *)
(* can run between the two.                                                *)

\* update_final_result up to row = cursor.fetchone()
FinalizeRead(p, session_id, final_result, timesheet_id) ==
    /\ finalize[p].pc = "idle"
    /\ LET i == LatestRow(ai_feedback, session_id)
       IN finalize' = [finalize EXCEPT ![p] =
                          [pc |-> "read", session_id |-> session_id,
                           final_result |-> final_result, timesheet_id |-> timesheet_id,
                           row |-> i # 0,
                           ai_result |-> IF i # 0 THEN ai_feedback[i].ai_result
                                         ELSE NullText]]
    /\ UNCHANGED <<parse_vars, feedback_vars, admin_vars>>

\* update_final_result from `if row:` on: the counting, the UPDATE, the commit
FinalizeWrite(p) ==
    /\ finalize[p].pc = "read"
    /\ LET call == finalize[p]
           ai_result == JsonLoadsText(call.ai_result)
       IN IF call.row /\ ai_result.kind = "object"
          THEN ai_feedback' = UpdateSession(ai_feedback, call.session_id,
                                  FinalColumns(ai_result.members, call.final_result,
                                               call.timesheet_id, clock))
          ELSE UNCHANGED ai_feedback
    /\ finalize' = [finalize EXCEPT ![p] = NoCall]
    /\ UNCHANGED <<clock, fb_pc, fb_request, fb_status, fb_resp>>
    /\ UNCHANGED <<parse_vars, admin_vars>>

-----------------------------------------------------------------------------
(* Inputs *)

\* all texts made of at most n words of the set Words, joined by sep
RECURSIVE Phrases(_, _, _)
Phrases(Words, sep, n) ==
    IF n = 0 THEN {<<>>}
    ELSE LET shorter == Phrases(Words, sep, n - 1)
         IN shorter \cup {IF p = <<>> THEN w ELSE p \o sep \o w :
                              p \in shorter, w \in Words}

Body(message, fields, c, teamName) ==
    [json |-> "object", message |-> message, fields |-> fields, center |-> c,
     teamName |-> teamName]

Field(key, label, required, options) ==
    [key |-> key, label |-> label, required |-> required, options |-> options]

Option(value, label, children) ==
    [value |-> value, label |-> label, children |-> children]

Completion(content, object) ==
    [exc |-> "none", choices |-> "ok", content |-> content, object |-> object,
     error |-> "absent", errmsg |-> ""]

Raises(exc) == [NoUpstream EXCEPT !.exc = exc]

-----------------------------------------------------------------------------
(* Routing: requests that vary center, teamName, message and field schema *)

MaxRouteWords == 2

RouteWords == { <<"S", "P", "A">>, <<"o", "f", "f", "i", "c", "e">>, <<"v", "o", "c">>, <<"u5F00", "u4F1A">>, <<"t", "e", "r", "m">>, <<"s", "h", "e", "e", "t">> }

RouteMessages == Phrases(RouteWords, <<" ">>, MaxRouteWords)

RouteCenters == {None, "", "invest", "corp", "biz", "legal"}

RouteTeamNames ==
    { <<>>, <<"u6295", "u8D44", "u6CD5", "u52A1", "u4E2D", "u5FC3">>, <<"I", "n", "v", "e", "s", "t", "m", "e", "n", "t", " ", "L", "e", "g", "a", "l">>, <<"u56FD", "u9645", "u91D1", "u878D", "u4E8B", "u52A1", "u4E2D", "u5FC3">>,
      <<"u4E1A", "u52A1", "u7BA1", "u7406", "u4E0E", "u5408", "u89C4", "u68C0", "u6D4B", "u4E2D", "u5FC3">>, <<"u7EFC", "u5408", "u7EC4">> }

RouteFields ==
    { <<>>,
      <<Field(<<"d", "e", "a", "l", "M", "a", "t", "t", "e", "r", "N", "a", "m", "e">>, <<"D", "e", "a", "l", "/", "M", "a", "t", "t", "e", "r", " ", "N", "a", "m", "e">>, FALSE, <<>>)>>,
      <<Field(<<"c", "a", "t", "e", "g", "o", "r", "y">>, <<"u4E8B", "u9879", "u5206", "u7C7B">>, TRUE,
              <<Option(<<"_", "1">>, <<"u68C0", "u6D4B">>, <<Option(<<"F", "i", "n", "t", "e", "c", "h">>, <<"F", "i", "n", "t", "e", "c", "h">>, <<>>)>>)>>)>> }

RouteBodies ==
    {NoBody} \cup
    {Body(m, f, c, t) : m \in RouteMessages, f \in RouteFields,
                        c \in RouteCenters, t \in RouteTeamNames}

RouteUpstreams == { Completion(<<"<object>">>, [description |-> StrVal(<<"x">>)]) }

NextRoute ==
    \/ \E b \in RouteBodies : ParseTimesheet(b)
    \/ \E up \in RouteUpstreams : UpstreamReturns(up)
    \/ NextRequest

SpecRoute == Init /\ [][NextRoute]_vars

\* the request reached call_hunyuan_api's prompt selection
Routed == pc = "awaiting" \/ (pc = "done" /\ posts = 1)

\* the caller supplied an explicit center
ExplicitCenter == body.center # None /\ body.center # ""

\* the unit whose substring list teamName matches first, "none" when no list matches
TeamNameUnit ==
    LET t == Lower(body.teamName)
    IN IF Contains(t, <<"u6295", "u8D44", "u6CD5", "u52A1">>) \/ Contains(t, <<"i", "n", "v", "e", "s", "t", "m", "e", "n", "t">>) THEN "invest"
       ELSE IF Contains(t, <<"u516C", "u53F8", "u53CA", "u56FD", "u9645", "u91D1", "u878D">>) \/ Contains(t, <<"u56FD", "u9645", "u91D1", "u878D", "u4E8B", "u52A1">>) THEN "corp"
       ELSE IF Contains(t, <<"u4E1A", "u52A1", "u7BA1", "u7406">>) \/ Contains(t, <<"u5408", "u89C4", "u68C0", "u6D4B">>) THEN "biz"
       ELSE "none"

UnitPrompt ==
    [invest |-> "INVEST_LEGAL_PROMPT", corp |-> "CORP_INTL_PROMPT",
     biz |-> "BIZ_COMPLIANCE_PROMPT"]

\* C3: routing is first-tier-wins.  An explicit center decides the unit whatever
\* teamName and message hold; without one, a teamName that matches a unit's
\* substrings decides it whatever the message and the field schema hold.
C3_FirstTierWins ==
    Routed =>
        /\ ExplicitCenter =>
               /\ center = body.center
               /\ body.center \in DOMAIN UnitPrompt
                      => business_prompt = UnitPrompt[body.center]
        /\ (~ExplicitCenter /\ TeamNameUnit # "none") =>
               /\ center = TeamNameUnit
               /\ business_prompt = UnitPrompt[TeamNameUnit]

\* an explicit 'corp' beats a teamName of the investment unit and an investment
\* keyword in the message; a teamName of the corp unit beats the message keyword
C3_Witness ==
    /\ Routed
    /\ \/ /\ body.center = "corp"
          /\ TeamNameUnit = "invest"
          /\ Contains(Lower(body.message), <<"s", "p", "a">>)
          /\ business_prompt = "CORP_INTL_PROMPT"
       \/ /\ body.center = None
          /\ TeamNameUnit = "corp"
          /\ Contains(Lower(body.message), <<"s", "p", "a">>)
          /\ business_prompt = "CORP_INTL_PROMPT"

\* the text the keyword scan runs over
ScanText == Lower(body.message \o <<" ">> \o fields_info)

\* C4 as stated: with no explicit center (absent, null or empty string) and a
\* teamName that is absent or matches no unit, the keyword scan decides the unit.
C4_KeywordScanDecides ==
    (Routed /\ ~ExplicitCenter /\ TeamNameUnit = "none") =>
        /\ AnyKeyword(invest_keywords, ScanText) => business_prompt = "INVEST_LEGAL_PROMPT"
        /\ (~AnyKeyword(invest_keywords, ScanText) /\ AnyKeyword(corp_keywords, ScanText))
               => business_prompt = "CORP_INTL_PROMPT"

\* C5: the keyword scan tests the investment keywords, then the corporate ones,
\* then the business-compliance ones, the first unit with a hit wins, no hit gives
\* 'default'; every routing outcome selects exactly one of the three unit prompts.
C5_DetectOrder ==
    Routed =>
        /\ business_prompt \in {UnitPrompt[u] : u \in DOMAIN UnitPrompt}
        /\ (body.center = None /\ TeamNameUnit = "none") =>
               LET inv == AnyKeyword(invest_keywords, ScanText)
                   corp == AnyKeyword(corp_keywords, ScanText)
                   biz == AnyKeyword(biz_keywords, ScanText)
               IN /\ inv => center = "invest"
                  /\ (~inv /\ corp) => center = "corp"
                  /\ (~inv /\ ~corp /\ biz) => center = "biz"
                  /\ (~inv /\ ~corp /\ ~biz) => center = "default"
                  /\ center = "default" => business_prompt = "BIZ_COMPLIANCE_PROMPT"

\* a text with keywords of two units goes to the earlier unit; an unrecognised
\* explicit identifier still gets a prompt
C5_Witness ==
    /\ Routed
    /\ body.center = None
    /\ TeamNameUnit = "none"
    /\ AnyKeyword(invest_keywords, ScanText)
    /\ AnyKeyword(corp_keywords, ScanText)
    /\ AnyKeyword(biz_keywords, ScanText)
    /\ center = "invest"

-----------------------------------------------------------------------------
(* Post-filter gates: requests that vary the message against what the model returns *)

MaxGateWords == 2

\* pieces of time expressions, of team words, and near misses of both
GateWords ==
    { <<"2">>, <<"2", ".", "5">>, <<" ", "h">>, <<"H">>, <<"u5C0F", "u65F6">>, <<"u5206", "u949F">>, <<"u534A">>, <<"u534A", "u4E2A">>, <<"u4E09">>, <<"u4E24">>,
      <<"T", "e", "a", "m">>, <<"g", "r", "o", "u", "p">>, <<"u7EC4">>, <<"u5F00", "u4F1A">> }

GateMessages == Phrases(GateWords, <<>>, MaxGateWords)

\* the other request parameters, which the gates must not depend on
GateFields == {<<>>, <<Field(<<"h", "o", "u", "r", "s">>, <<"u5DE5", "u65F6">>, TRUE, <<>>), Field(<<"t", "e", "a", "m">>, <<"u5C0F", "u7EC4">>, FALSE, <<>>)>>}

GateBodies ==
    {NoBody} \cup
    {Body(m, f, c, <<>>) : m \in GateMessages, f \in GateFields, c \in {None, "invest"}}

\* every object over the keys hours, team, description
GateObjects ==
    LET full == [hours |-> NumVal(2500), team |-> StrVal(<<"A", "u7EC4">>),
                 description |-> StrVal(<<"u5F00", "u4F1A">>)]
    IN {[k \in K |-> full[k]] : K \in SUBSET DOMAIN full}

GateUpstreams ==
    {Completion(<<"<object>">>, o) : o \in GateObjects}
    \cup { Completion(<<"s", "o", "r", "r", "y">>, EmptyObject), Raises("Timeout"),
           [NoUpstream EXCEPT !.error = "message", !.errmsg = "quota exceeded"] }

Next ==
    \/ \E b \in GateBodies : ParseTimesheet(b)
    \/ \E up \in GateUpstreams : UpstreamReturns(up)
    \/ NextRequest

Spec == Init /\ [][Next]_vars

\* /parse answered with a data mapping
HasData == pc = "done" /\ "data" \in DOMAIN resp

\* the model's reply was read as a JSON object
ParsedObject ==
    /\ upstream.exc = "none"
    /\ upstream.choices = "ok"
    /\ JsonLoads(CleanContent(upstream.content)) = "object"

\* C1: when the time-expression detector finds no match in the message, the data
\* mapping of the answer has no 'hours' key, whatever object the model returned.
C1_NoHoursWithoutTimeExpression ==
    (HasData /\ ~check_hours_mentioned(body.message)) => "hours" \notin DOMAIN resp.data

\* the model returned hours for a message without a time expression; the answer
\* keeps the other keys and drops hours
C1_Witness ==
    /\ HasData
    /\ ~check_hours_mentioned(body.message)
    /\ ParsedObject
    /\ "hours" \in DOMAIN upstream.object
    /\ "description" \in DOMAIN resp.data
    /\ "hours" \notin DOMAIN resp.data

TeamKeywordInMessage == AnyKeyword(team_keywords, Lower(body.message))

\* C2 as stated: the 'team' key is in the Extraction Result if and only if the
\* lowercased message contains a keyword of the team keyword set.
C2_TeamIffKeyword ==
    (HasData /\ ParsedObject) => ("team" \in DOMAIN resp.data <=> TeamKeywordInMessage)

\* C2 amended: without a keyword the 'team' key is absent; with a keyword it is
\* present exactly when the object the model returned holds it.
C2_TeamGate ==
    HasData =>
        ("team" \in DOMAIN resp.data
            <=> (TeamKeywordInMessage /\ ParsedObject /\ "team" \in DOMAIN upstream.object))

\* an upper-case keyword keeps the model's team; no keyword drops it
C2_Witness ==
    /\ HasData
    /\ ParsedObject
    /\ "team" \in DOMAIN upstream.object
    /\ \/ TeamKeywordInMessage /\ ~AnyKeyword(team_keywords, body.message)
          /\ "team" \in DOMAIN resp.data
       \/ ~TeamKeywordInMessage /\ "team" \notin DOMAIN resp.data

\* C11: when the message holds a time expression, an hours value of the object
\* the model returned is in the data mapping of the answer, and a numeric hours
\* value is there unchanged: the post-filter neither removes nor alters it.
C11_HoursKeptWithTimeExpression ==
    (HasData /\ ParsedObject /\ check_hours_mentioned(body.message)
        /\ "hours" \in DOMAIN upstream.object) =>
            /\ "hours" \in DOMAIN resp.data
            /\ upstream.object.hours.t = "num" => resp.data.hours = upstream.object.hours

\* "half an hour" written with the numeral idiom and no team word: the model's
\* hours of 2.5 are answered as 2.5 while its team is dropped
C11_Witness ==
    /\ HasData
    /\ ParsedObject
    /\ Contains(body.message, <<"u534A", "u5C0F", "u65F6">>)
    /\ "team" \in DOMAIN upstream.object
    /\ "team" \notin DOMAIN resp.data
    /\ "hours" \in DOMAIN upstream.object
    /\ "hours" \in DOMAIN resp.data
    /\ resp.data.hours = NumVal(2500)

\* C12: the system prompt carries the decimal-hour conversion rule exactly when
\* the time-expression detector matches the message and the "do not return
\* hours" rule otherwise; for one request the clause agrees with the hours gate
\* of the post-filter: hours the model returned are kept exactly under the
\* conversion rule.
C12_HoursClauseAgreesWithGate ==
    /\ Routed =>
           /\ hours_rule = "convert" <=> check_hours_mentioned(body.message)
           /\ hours_rule = "omit" <=> ~check_hours_mentioned(body.message)
    /\ (HasData /\ ParsedObject /\ "hours" \in DOMAIN upstream.object) =>
           ("hours" \in DOMAIN resp.data <=> hours_rule = "convert")

\* a time expression without any digit gets the conversion rule and keeps the
\* hours; a digit that is no time expression gets the other rule and loses them
C12_Witness ==
    /\ HasData
    /\ ParsedObject
    /\ "hours" \in DOMAIN upstream.object
    /\ \/ /\ body.message = <<"u4E09", "u5C0F", "u65F6">>
          /\ hours_rule = "convert"
          /\ "hours" \in DOMAIN resp.data
       \/ /\ body.message = <<"2", "u7EC4">>
          /\ hours_rule = "omit"
          /\ "hours" \notin DOMAIN resp.data

\* the request got past both 400 answers and the API key check
ReachesUpstream ==
    body.json = "object" /\ body.message # <<>> /\ HUNYUAN_API_KEY # ""

\* C13: a /parse request makes at most one request to the completion endpoint:
\* exactly one once the message is non-empty and the API key is configured, none
\* when the body or the message is empty or the key is missing; the count only
\* grows when a request starts, so nothing is issued again after a timeout, a
\* failure or an answer.
C13_OneUpstreamRequest ==
    /\ [](posts \in {0, 1})
    /\ [](pc \in {"awaiting", "done"} => (posts = 1 <=> ReachesUpstream))
    /\ [][posts' > posts => pc = "idle"]_vars

\* the upstream call timed out and /parse answered the failure after one call
C13_Witness ==
    /\ pc = "done"
    /\ ReachesUpstream
    /\ upstream.exc = "Timeout"
    /\ resp = [success |-> FALSE, error |-> ErrTimeout]
    /\ posts = 1

-----------------------------------------------------------------------------
(* Prompt builder: requests that vary the option tree of a field *)

MaxTop == 10     \* top-level options of a tree
MaxKids == 8     \* children of each top-level option

\* value and label of the option at a path of child indices: "v3.2", "L3.2"
PathText(first, path) ==
    first \o Join(<<".">>, [i \in 1..Len(path) |-> IntToStr(path[i])])

\* a tree of t top-level options with k children each; with deep, the first child
\* of every top-level option has a child of its own; without labelled, no option
\* has a label
OptionTree(t, k, deep, labelled) ==
    LET label(path) == IF labelled THEN PathText(<<"L">>, path) ELSE <<>>
        grandchild(i, j) == Option(PathText(<<"v">>, <<i, j, 1>>), label(<<i, j, 1>>), <<>>)
        child(i, j) == Option(PathText(<<"v">>, <<i, j>>), label(<<i, j>>),
                              IF deep /\ j = 1 THEN <<grandchild(i, j)>> ELSE <<>>)
    IN [i \in 1..t |-> Option(PathText(<<"v">>, <<i>>), label(<<i>>),
                              [j \in 1..k |-> child(i, j)])]

OptionTrees ==
    {OptionTree(t, k, deep, labelled) :
        t \in 1..MaxTop, k \in 0..MaxKids, deep \in BOOLEAN, labelled \in BOOLEAN}

FlattenBodies ==
    {NoBody} \cup
    {Body(<<"u5F00", "u4F1A">>, <<Field(<<"h", "o", "u", "r", "s">>, <<"u5DE5", "u65F6">>, TRUE, <<>>),
                     Field(<<"t", "a", "s", "k">>, <<"u4EFB", "u52A1">>, required, tree)>>, "biz", <<>>) :
        required \in BOOLEAN, tree \in OptionTrees}

NextFlatten ==
    \/ \E b \in FlattenBodies : ParseTimesheet(b)
    \/ UpstreamReturns(Raises("Timeout"))
    \/ NextRequest

SpecFlatten == Init /\ [][NextFlatten]_vars

\* the paths of the options of a tree
RECURSIVE Paths(_)
Paths(opts) ==
    UNION {{<<i>>} \cup {<<i>> \o p : p \in Paths(opts[i].children)} : i \in 1..Len(opts)}

RECURSIVE OptionAt(_, _)
OptionAt(opts, path) ==
    IF Len(path) = 1 THEN opts[path[1]]
    ELSE OptionAt(opts[path[1]].children, Tail(path))

\* p comes before q in the pre-order depth-first traversal
Before(p, q) ==
    \/ Len(p) < Len(q) /\ SubSeq(q, 1, Len(p)) = p
    \/ \E i \in 1..Len(p) :
           /\ i <= Len(q)
           /\ SubSeq(p, 1, i - 1) = SubSeq(q, 1, i - 1)
           /\ p[i] < q[i]

\* the field whose options the requests vary, once fields_info is built
TreeField == body.fields[2]

FieldsBuilt == pc # "idle" /\ body.json = "object" /\ Len(body.fields) = 2

\* position of every option in the pre-order traversal, counted from 1
TraversalPosition ==
    LET paths == Paths(TreeField.options)
    IN [p \in paths |-> 1 + Cardinality({q \in paths : Before(q, p)})]

NumOptions == Cardinality(Paths(TreeField.options))

Min(a, b) == IF a < b THEN a ELSE b

\* the text of the field schema with the option of each path rendered by Render
FieldsText(Render(_)) ==
    LET f == TreeField
        position == TraversalPosition
        n == NumOptions
        shown == [i \in 1..Min(OptionLimit, n) |->
                     Render(CHOOSE p \in DOMAIN position : position[p] = i)]
    IN <<"-", " ", "h", "o", "u", "r", "s", ":", " ", "u5DE5", "u65F6", " ", "(", "u5FC5", "u586B", ")", "\n", "-", " ", "t", "a", "s", "k", ":", " ", "u4EFB", "u52A1">>
       \o (IF f.required THEN <<" ", "(", "u5FC5", "u586B", ")">> ELSE <<>>)
       \o (IF n > 0 THEN <<"\n", " ", " ", "u53EF", "u9009", "u503C", ":", " ">> \o Join(<<",", " ">>, shown) ELSE <<>>)
       \o (IF n > OptionLimit
           THEN <<" ", ".", ".", ".", " ", "u7B49", "u5171">> \o IntToStr(n) \o <<"u4E2A", "u9009", "u9879">> ELSE <<>>)

ParentLabel(path) == OptionAt(TreeField.options, SubSeq(path, 1, Len(path) - 1)).label

\* every child rendered as '[<label of its parent>] <value>'
RenderAsStated(path) ==
    LET value == OptionAt(TreeField.options, path).value
    IN IF Len(path) = 1 THEN value
       ELSE <<"[">> \o ParentLabel(path) \o <<"]", " ">> \o value

\* a child of a parent without label rendered as its bare value
RenderAmended(path) ==
    LET value == OptionAt(TreeField.options, path).value
    IN IF Len(path) = 1 \/ ParentLabel(path) = <<>> THEN value
       ELSE <<"[">> \o ParentLabel(path) \o <<"]", " ">> \o value

\* C6 as stated: the option list in the prompt is the first min(80, n) entries of
\* the pre-order traversal, a top-level option as its bare value and every child
\* as '[<label of its parent>] <value>', with the 'more options' marker iff n > 80.
C6_FlattenAsStated == FieldsBuilt => fields_info = FieldsText(RenderAsStated)

\* C6 amended: the same, except that a child whose parent has no label (missing
\* or empty) is rendered as its bare value; every option within the first 80
\* traversal positions appears verbatim in the flattened text.
C6_Flatten ==
    FieldsBuilt =>
        /\ fields_info = FieldsText(RenderAmended)
        /\ LET position == TraversalPosition
           IN \A p \in DOMAIN position :
                  position[p] <= OptionLimit
                      => Contains(fields_info, OptionAt(TreeField.options, p).value)

\* a labelled tree of more than 80 options with grandchildren: the list is cut
\* and the marker is there
C6_Witness ==
    /\ FieldsBuilt
    /\ NumOptions > OptionLimit
    /\ \E p \in Paths(TreeField.options) : Len(p) = 3 /\ ParentLabel(p) # <<>>
    /\ Contains(fields_info, <<" ", ".", ".", ".", " ", "u7B49", "u5171">>)
    /\ \E p \in Paths(TreeField.options) :
           /\ TraversalPosition[p] = NumOptions
           /\ ~Contains(fields_info, OptionAt(TreeField.options, p).value)

-----------------------------------------------------------------------------
(* Extraction client: requests that vary what the upstream call produces *)

UpMessages == { <<"u5F00", "u4F1A">>, <<"u5F00", "u4F1A", "2", "h">>, <<"T", "e", "a", "m", " ", "m", "e", "e", "t", "i", "n", "g">>, <<"2", "h", " ", "t", "e", "a", "m">> }

UpBodies == {NoBody} \cup {Body(m, <<>>, None, <<>>) : m \in UpMessages}

UpObjects ==
    { EmptyObject,
      [hours |-> NumVal(2000), team |-> StrVal(<<"A", "u7EC4">>), description |-> StrVal(<<"u5F00", "u4F1A">>)],
      [description |-> StrVal(<<"[", "O", "K", "R", "]", " ", "u5F00", "u4F1A">>)] }

\* the text of a JSON object: on one line, or over several lines
ObjectTexts == { <<"<object>">>, <<"<object-head>", "\n", " ", " ", "<object-tail>">> }

\* a text in a code fence whose markers are on lines of their own
FencedOnOwnLines(text) ==
    { <<"u0060", "u0060", "u0060", "\n">> \o text \o <<"\n", "u0060", "u0060", "u0060">>,
      <<"u0060", "u0060", "u0060", "j", "s", "o", "n", "\n">> \o text \o <<"\n", "u0060", "u0060", "u0060">>,
      <<" ", "u0060", "u0060", "u0060", "j", "s", "o", "n", "\n">> \o text \o <<"\n", "u0060", "u0060", "u0060", "\n">> }

\* a text in a code fence with a marker on the same line as the text
FencedOnSameLine(text) ==
    { <<"u0060", "u0060", "u0060">> \o text \o <<"u0060", "u0060", "u0060">>,
      <<"u0060", "u0060", "u0060", "j", "s", "o", "n", " ">> \o text \o <<" ", "u0060", "u0060", "u0060">>,
      <<"u0060", "u0060", "u0060", "j", "s", "o", "n", "\n">> \o text \o <<"u0060", "u0060", "u0060">> }

Wrappings(text) ==
    {text, <<"\n", " ">> \o text \o <<" ", "\n">>, <<"j", "s", "o", "n", "\n">> \o text}
    \cup FencedOnOwnLines(text) \cup FencedOnSameLine(text)

UpCompletions ==
    {Completion(c, o) : c \in UNION {Wrappings(t) : t \in ObjectTexts}, o \in UpObjects}
    \cup {Completion(c, EmptyObject) : c \in Wrappings(<<"<array>">>) \cup Wrappings(<<"s", "o", "r", "r", "y">>)}

UpFailures ==
    {Raises(e) : e \in {"Timeout", "ConnectionError", "JSONDecodeError"}}
    \cup {[NoUpstream EXCEPT !.choices = "malformed"]}
    \cup {[NoUpstream EXCEPT !.choices = c, !.error = e,
                             !.errmsg = IF e = "message" THEN "quota exceeded" ELSE ""] :
             c \in {"absent", "empty"},
             e \in {"absent", "message", "nomessage", "string"}}

NextUpstream ==
    \/ \E b \in UpBodies : ParseTimesheet(b)
    \/ \E up \in UpCompletions \cup UpFailures : UpstreamReturns(up)
    \/ NextRequest

SpecUpstream == Init /\ [][NextUpstream]_vars

\* call_hunyuan_api returned after the upstream call
Answered == pc = "done" /\ posts = 1

NoCompletion == upstream.exc = "none" /\ upstream.choices \in {"absent", "empty"}

FailureWith(error) == resp = [success |-> FALSE, error |-> error]

\* C7 as stated: a timeout gives success=false with the timeout error, any other
\* exception gives success=false with its message, and a response without a
\* completion gives success=false with the upstream error message when present,
\* otherwise the format-anomaly error; none carries data.
C7_FailuresAsStated ==
    Answered =>
        /\ upstream.exc = "Timeout" => FailureWith(ErrTimeout)
        /\ upstream.exc \notin {"none", "Timeout"} => FailureWith(upstream.exc)
        /\ NoCompletion =>
               IF upstream.error = "message" THEN FailureWith(upstream.errmsg)
               ELSE FailureWith(ErrFormat)

\* C7 amended: as stated, except that a response without a completion whose error
\* member is an object without a message gives the generic API error, and one
\* whose error member is not an object gives the text of the exception raised on
\* reading it; the format-anomaly error is for a response without error member.
C7_Failures ==
    Answered =>
        /\ "success" \in DOMAIN resp
        /\ upstream.exc = "Timeout" => FailureWith(ErrTimeout)
        /\ upstream.exc \notin {"none", "Timeout"} => FailureWith(upstream.exc)
        /\ NoCompletion =>
               /\ upstream.error = "message" => FailureWith(upstream.errmsg)
               /\ upstream.error = "nomessage" => FailureWith(ErrApi)
               /\ upstream.error = "string" => FailureWith("AttributeError")
               /\ upstream.error = "absent" => FailureWith(ErrFormat)

C7_Witness ==
    /\ Answered
    /\ \/ upstream.exc = "Timeout" /\ resp.error = ErrTimeout
       \/ NoCompletion /\ upstream.error = "nomessage" /\ resp.error = ErrApi
       \/ NoCompletion /\ upstream.error = "absent" /\ resp.error = ErrFormat

\* the completion text could not be parsed as JSON
Unparseable ==
    /\ upstream.exc = "none"
    /\ upstream.choices = "ok"
    /\ JsonLoads(CleanContent(upstream.content)) = "JSONDecodeError"

UpstreamFailed == upstream.exc # "none" \/ upstream.choices # "ok"

\* C8 as stated: an unparseable completion gives success=true, data = {},
\* parse_error = true and raw = the completion text; every failure gives
\* success=false; a parsed reply never carries parse_error.
C8_ParseErrorAsStated ==
    Answered =>
        /\ Unparseable =>
               resp = [success |-> TRUE, data |-> EmptyObject, parse_error |-> TRUE,
                       raw |-> upstream.content]
        /\ UpstreamFailed => resp.success = FALSE
        /\ (~Unparseable /\ ~UpstreamFailed) => "parse_error" \notin DOMAIN resp

\* no white space at either end of a text
Trimmed(text) == text # <<>> => text[1] \notin Space /\ text[Len(text)] \notin Space

\* a text the cleanup has nothing to remove from
Plain(text) == Trimmed(text) /\ ~StartsWith(text, <<"u0060", "u0060", "u0060">>) /\ ~StartsWith(text, <<"j", "s", "o", "n">>)

\* C8 amended: raw is the completion text after the trim, the fence removal and
\* the removal of the "json" marker, that is a trimmed part of the completion text
\* and not always the whole of it.
C8_ParseError ==
    Answered =>
        /\ Unparseable =>
               /\ DOMAIN resp = {"success", "data", "raw", "parse_error"}
               /\ resp.success /\ resp.parse_error /\ resp.data = EmptyObject
               /\ Contains(upstream.content, resp.raw)
               /\ Trimmed(resp.raw)
               /\ Plain(upstream.content) => resp.raw = upstream.content
               /\ \A t \in FencedOnOwnLines(<<"s", "o", "r", "r", "y">>) :
                      upstream.content = t => resp.raw = <<"s", "o", "r", "r", "y">>
        /\ UpstreamFailed => resp.success = FALSE
        /\ (~Unparseable /\ ~UpstreamFailed) => "parse_error" \notin DOMAIN resp

C8_Witness ==
    /\ Answered
    /\ Unparseable
    /\ upstream.content = <<"u0060", "u0060", "u0060", "j", "s", "o", "n", "\n", "s", "o", "r", "r", "y", "\n", "u0060", "u0060", "u0060">>
    /\ resp.success /\ resp.parse_error
    /\ resp.raw = <<"s", "o", "r", "r", "y">>

\* the answer to the same object sent without a fence
UnfencedData == PostFilter(body.message, upstream.object)

\* C9 as stated: an object in a code fence, with or without the "json" tag, the
\* markers on their own lines or on the line of the object, gives the same
\* Extraction Result as the object sent without a fence.
C9_FenceAsStated ==
    Answered =>
        \A t \in ObjectTexts :
            upstream.content \in FencedOnOwnLines(t) \cup FencedOnSameLine(t)
                => /\ resp.success
                   /\ "parse_error" \notin DOMAIN resp
                   /\ resp.data = UnfencedData

-----------------------------------------------------------------------------
(* Value cleanup: requests that vary the string values of the model's object *)

MaxValueLen == 4

ValueChars == {"[", "]", " ", "a", "\n"}

\* every string of at most n characters of ValueChars
RECURSIVE Strings(_)
Strings(n) ==
    IF n = 0 THEN {<<>>}
    ELSE LET shorter == Strings(n - 1)
         IN shorter \cup {Append(v, c) : v \in shorter, c \in ValueChars}

CleanObjects ==
    {[task |-> StrVal(v)] : v \in Strings(MaxValueLen)}
    \cup {[hours |-> NumVal(25), task |-> StrVal(v), team |-> StrVal(v)] :
             v \in Strings(MaxValueLen)}

CleanBodies ==
    {NoBody, Body(<<"3", "u7EC4", "u5F00", "u4F1A", "2", ".", "5", "h">>, <<>>, None, <<>>), Body(<<"u5F00", "u4F1A">>, <<>>, None, <<>>)}

NextClean ==
    \/ \E b \in CleanBodies : ParseTimesheet(b)
    \/ \E o \in CleanObjects : UpstreamReturns(Completion(<<"<object>">>, o))
    \/ NextRequest

SpecClean == Init /\ [][NextClean]_vars

\* v begins with a bracketed prefix that ends on the first line
BeginsWithBracketPrefix(v) ==
    /\ v # <<>>
    /\ v[1] = "["
    /\ \E j \in 2..Len(v) : v[j] = "]" /\ \A i \in 2..(j - 1) : v[i] # "\n"

\* r is v without its first bracketed prefix and the white space after it
WithoutFirstPrefix(v, r) ==
    \E j \in 2..Len(v), e \in 3..(Len(v) + 1) :
        /\ v[j] = "]"
        /\ \A i \in 2..(j - 1) : v[i] \notin {"]", "\n"}
        /\ e > j
        /\ \A i \in (j + 1)..(e - 1) : v[i] \in Space
        /\ e <= Len(v) => v[e] \notin Space
        /\ r = SubSeq(v, e, Len(v))

CleanedAsAmended(v, r) ==
    IF BeginsWithBracketPrefix(v) THEN WithoutFirstPrefix(v, r) ELSE r = v

\* the keys and the non-string values are the model's; only the two gates of the
\* post-filter, which run after the cleanup, remove a key
KeysAndNumbersKept ==
    /\ DOMAIN resp.data \subseteq DOMAIN upstream.object
    /\ DOMAIN upstream.object \ DOMAIN resp.data \subseteq {"hours", "team"}
    /\ \A k \in DOMAIN resp.data :
           /\ resp.data[k].t = upstream.object[k].t
           /\ upstream.object[k].t # "str" => resp.data[k] = upstream.object[k]

\* C10 as stated: every string value is returned without its leading bracketed
\* prefix and the white space after it, so that no returned string value begins
\* with a bracketed prefix; other values and the keys are unchanged.
C10_CleanupAsStated ==
    (HasData /\ ParsedObject) =>
        /\ KeysAndNumbersKept
        /\ \A k \in DOMAIN resp.data :
               resp.data[k].t = "str" =>
                   /\ CleanedAsAmended(upstream.object[k].s, resp.data[k].s)
                   /\ ~BeginsWithBracketPrefix(resp.data[k].s)

\* C10 amended: every string value is returned without its first leading
\* bracketed prefix (from the opening bracket at the start of the value to the
\* first closing bracket, on one line) and the white space after it; a value that
\* carried a second prefix still begins with one; other values and the keys are
\* unchanged.
C10_Cleanup ==
    (HasData /\ ParsedObject) =>
        /\ KeysAndNumbersKept
        /\ \A k \in DOMAIN resp.data :
               resp.data[k].t = "str" =>
                   CleanedAsAmended(upstream.object[k].s, resp.data[k].s)

\* a prefix and the blank after it are removed next to a number that is kept
C10_Witness ==
    /\ HasData
    /\ ParsedObject
    /\ upstream.object = [hours |-> NumVal(25), task |-> StrVal(<<"[", "]", " ", "a">>),
                          team |-> StrVal(<<"[", "]", " ", "a">>)]
    /\ resp.data = [hours |-> NumVal(25), task |-> StrVal(<<"a">>), team |-> StrVal(<<"a">>)]

-----------------------------------------------------------------------------
(* Feedback lifecycle: record, submit and the read endpoints in any order *)

MaxRecords == 2     \* rows the table may hold

MaxClock == 1       \* ticks of the clock

RecordData(sessionId, userInput, aiResult) ==
    [json |-> "object", sessionId |-> sessionId, userInput |-> userInput,
     aiResult |-> aiResult]

SubmitData(sessionId, finalResult, timesheetId) ==
    [json |-> "object", sessionId |-> sessionId, finalResult |-> finalResult,
     timesheetId |-> timesheetId]

\* request.get_json() of a request without a body
NoRecordData == [json |-> "none", sessionId |-> None, userInput |-> None,
                 aiResult |-> JsonNull]

NoSubmitData == [json |-> "none", sessionId |-> None, finalResult |-> JsonNull,
                 timesheetId |-> None]

User1 == Token(1, FALSE)

Admin2 == Token(2, TRUE)

LifeSessions == {"s1", "s2"}

LifeAiResults ==
    { JsonObject([category |-> StrVal(<<"A">>)]),
      JsonObject([category |-> StrVal(<<"B">>), hours |-> NumVal(2500),
                  description |-> StrVal(<<"u5F00", "u4F1A">>)]) }

LifeRecords ==
    {RecordData(s, "2.5h meeting", a) : s \in LifeSessions, a \in LifeAiResults}
    \cup {NoRecordData, RecordData("", "2.5h meeting", JsonObject(EmptyObject)),
          RecordData("s1", None, JsonObject(EmptyObject)),
          RecordData("s1", "2.5h meeting", JsonNull)}

\* final values with the id of the entry they were saved as
LifeSubmits ==
    {SubmitData(s, f[1], f[2]) :
        s \in LifeSessions \cup {"s3"},
        f \in { <<JsonObject([category |-> StrVal(<<"A">>)]), None>>,
                <<JsonObject([category |-> StrVal(<<"B">>), hours |-> NumVal(2500)]), "t1">> }}
    \cup {NoSubmitData, SubmitData(None, JsonObject(EmptyObject), None),
          SubmitData("s1", JsonNull, None)}

\* the record requests the model sends: none once the table holds `limit` rows
Capped(requests, limit) == IF Len(ai_feedback) < limit THEN requests ELSE {}

NextFeedback ==
    \/ \E token \in {NoToken, User1}, data \in Capped(LifeRecords, MaxRecords) :
           RecordAiResult(token, data)
    \/ \E data \in LifeSubmits : SubmitFinalResult(User1, data)
    \/ \E token \in {User1, Admin2} : GetStatistics(token, NoDate, NoDate, NoUser)
    \/ \E token \in {User1, Admin2}, limit \in {1, 50} : GetRecentFeedbacks(token, limit)
    \/ NextFeedbackRequest
    \/ Tick(MaxClock)

SpecFeedback == Init /\ [][NextFeedback]_vars

\* the step is the handling of a feedback request of the given endpoint
Handles(op) == fb_pc = "idle" /\ fb_pc' = "done" /\ fb_request'.op = op

\* a submit request that passes the token check and both 400 checks
SubmitAccepted(request) ==
    /\ request.op = "submit"
    /\ request.token.valid
    /\ request.data.json = "object"
    /\ ~Falsy(request.data.sessionId)
    /\ request.data.finalResult.kind # "null"

\* the row is in the pending state: no final result, no finalize timestamp,
\* counters and accuracy 0, no linked entry
Pending(row) ==
    /\ row.final_result = NullText
    /\ row.submitted_at = NullTime
    /\ row.field_count = 0
    /\ row.matched_count = 0
    /\ row.accuracy = Zero
    /\ row.timesheet_id = None

\* C14: every successful record call adds exactly one row, in the pending state
\* and holding the caller, session, input and extraction result of the request;
\* the identifier it returns is the new row's and differs from the identifier of
\* every existing row; the existing rows, those of the same session included,
\* are left as they were.
C14_RecordAddsOnePendingRecord ==
    [][(Handles("record") /\ fb_status' = 200) =>
          LET new == ai_feedback'[Len(ai_feedback')]
          IN /\ Len(ai_feedback') = Len(ai_feedback) + 1
             /\ SubSeq(ai_feedback', 1, Len(ai_feedback)) = ai_feedback
             /\ Pending(new)
             /\ new.user_id = fb_request'.token.user_id
             /\ new.session_id = fb_request'.data.sessionId
             /\ new.user_input = fb_request'.data.userInput
             /\ JsonLoadsText(new.ai_result) = fb_request'.data.aiResult
             /\ fb_resp'.success
             /\ fb_resp'.data.feedbackId = new.id
             /\ \A i \in 1..Len(ai_feedback) : ai_feedback[i].id # new.id]_vars

\* a second record of a session whose first record exists and is finalized
C14_Witness ==
    /\ fb_pc = "done"
    /\ fb_request.op = "record"
    /\ fb_status = 200
    /\ Len(ai_feedback) = 2
    /\ \A i \in 1..2 : ai_feedback[i].session_id = fb_request.data.sessionId
    /\ Finalized(ai_feedback[1])
    /\ Pending(ai_feedback[2])
    /\ fb_resp.data.feedbackId = 2

\* C15 as stated: a finalize writes to the most recently created record of the
\* session and to no other: every other row, earlier records of the same session
\* included, keeps all its columns.
C15_FinalizeWritesLatestOnly ==
    [][(Handles("submit") /\ fb_status' = 200 /\ SubmitAccepted(fb_request')) =>
          /\ Len(ai_feedback') = Len(ai_feedback)
          /\ \A i \in 1..Len(ai_feedback) :
                 i # LatestRow(ai_feedback, fb_request'.data.sessionId)
                     => ai_feedback'[i] = ai_feedback[i]]_vars

\* C18: a finalize for a session that has no record changes no row, adds none,
\* raises nothing, and the submit endpoint answers success.
C18_FinalizeWithoutRecord ==
    [][(Handles("submit") /\ SubmitAccepted(fb_request')
           /\ SessionRows(ai_feedback, fb_request'.data.sessionId) = {}) =>
          /\ ai_feedback' = ai_feedback
          /\ fb_status' = 200
          /\ fb_resp'.success]_vars

\* the submit endpoint answered success for a session without a record while
\* records of other sessions exist, pending and finalized
C18_Witness ==
    /\ fb_pc = "done"
    /\ SubmitAccepted(fb_request)
    /\ SessionRows(ai_feedback, fb_request.data.sessionId) = {}
    /\ \E i \in 1..Len(ai_feedback) : Pending(ai_feedback[i])
    /\ \E i \in 1..Len(ai_feedback) : Finalized(ai_feedback[i])
    /\ fb_status = 200
    /\ fb_resp.success

\* C19: in every step no row is removed; the id, user, session, input text and
\* raw extraction result of a row never change; a finalized row stays finalized;
\* the read endpoints (statistics with its daily part, recent) change no row.
C19_RecordsAreKept ==
    [][/\ Len(ai_feedback') >= Len(ai_feedback)
       /\ \A i \in 1..Len(ai_feedback) :
              /\ ai_feedback'[i].id = ai_feedback[i].id
              /\ ai_feedback'[i].user_id = ai_feedback[i].user_id
              /\ ai_feedback'[i].session_id = ai_feedback[i].session_id
              /\ ai_feedback'[i].user_input = ai_feedback[i].user_input
              /\ ai_feedback'[i].ai_result = ai_feedback[i].ai_result
              /\ Finalized(ai_feedback[i]) => Finalized(ai_feedback'[i])
       /\ (Handles("statistics") \/ Handles("recent")) => ai_feedback' = ai_feedback]_vars

\* a session finalized at one time and finalized again later, next to a pending
\* record, with a read endpoint answering over them
C19_Witness ==
    /\ fb_pc = "done"
    /\ fb_request.op \in {"statistics", "recent"}
    /\ fb_status = 200
    /\ \E i \in 1..Len(ai_feedback) :
           /\ Finalized(ai_feedback[i])
           /\ ai_feedback[i].submitted_at > ai_feedback[i].created_at
    /\ \E i \in 1..Len(ai_feedback) : Pending(ai_feedback[i])

-----------------------------------------------------------------------------
(* Match counting: one session, extraction results against final values *)

MaxCompareRecords == 1     \* rows the table may hold in this specification

\* the object holding the members of a record whose value is not Absent
Absent == [t |-> "absent", s |-> <<>>, n |-> 0]

Members(candidate) ==
    [key \in {k \in DOMAIN candidate : candidate[k] # Absent} |-> candidate[key]]

AiResult(category, hours, rest) ==
    JsonObject(Members([category |-> category, hours |-> hours, team |-> rest[1],
                        tag |-> rest[2], description |-> rest[3]]))

\* extraction results: nothing, a description only, or team, tag and description
\* next to the hours in each of their forms, or next to a category and hours
CompareAiResults ==
    LET rests == { <<Absent, Absent, Absent>>, <<Absent, Absent, StrVal(<<"u5F00", "u4F1A">>)>>,
                   <<StrVal(<<"T">>), StrVal(<<"x">>), StrVal(<<"u5F00", "u4F1A">>)>> }
    IN {AiResult(Absent, h, r) :
            h \in {Absent, NumVal(2500), IntVal(2), NumVal(0), StrVal(<<"2", ".", "5">>)},
            r \in rests}
       \cup {AiResult(StrVal(<<" ", "A", " ">>), NumVal(2500), r) : r \in rests}
       \cup {JsonArray}

FinalResult(category, hours, rest) ==
    JsonObject(Members([category |-> category, hours |-> hours, team |-> rest[1],
                        tag |-> rest[2], note |-> rest[3]]))

\* final values: hours equal, within and outside the tolerance, of the other
\* type, null and missing; the category trimmed-equal, different and missing; a
\* tag that differs; a key the extraction result never has; and no values at all
CompareFinalResults ==
    LET changed == <<StrVal(<<"T">>), StrVal(<<"y">>), StrVal(<<"n">>)>>
    IN {FinalResult(StrVal(<<"A">>), h, changed) :
            h \in {Absent, NumVal(2500), NumVal(2505), NumVal(2000), IntVal(3),
                   NumVal(10), StrVal(<<" ", "2", ".", "5">>), StrVal(<<"2">>), NullVal}}
       \cup {FinalResult(c, NumVal(2505), changed) : c \in {Absent, StrVal(<<"B">>)}}
       \cup {FinalResult(StrVal(<<"A">>), NumVal(2505), r) :
                 r \in { <<Absent, Absent, Absent>>,
                         <<StrVal(<<"T">>), StrVal(<<"x">>), Absent>> }}
       \cup {JsonObject(EmptyObject)}

CompareRecords == {RecordData("s1", "2.5h meeting", a) : a \in CompareAiResults}

CompareSubmits == {SubmitData("s1", f, "t1") : f \in CompareFinalResults}

NextCompare ==
    \/ \E data \in Capped(CompareRecords, MaxCompareRecords) : RecordAiResult(User1, data)
    \/ \E data \in CompareSubmits : SubmitFinalResult(User1, data)
    \/ NextFeedbackRequest

SpecCompare == Init /\ [][NextCompare]_vars

\* the submit endpoint just finalized a record
JustFinalized ==
    /\ fb_pc = "done"
    /\ SubmitAccepted(fb_request)
    /\ fb_status = 200
    /\ LatestRow(ai_feedback, fb_request.data.sessionId) # 0

\* the record the finalize located, its extraction result, the final values sent
FinalizedRow == ai_feedback[LatestRow(ai_feedback, fb_request.data.sessionId)]

StoredAiResult == JsonLoadsText(FinalizedRow.ai_result).members

SentFinalValues == fb_request.data.finalResult.members

\* the comparison as the claim words it: two numbers are equal within an absolute
\* difference below 0.01, any other pair by its trimmed string forms
StatedEqual(a, b) ==
    IF a.t \in {"int", "num"} /\ b.t \in {"int", "num"}
    THEN 100 * Abs(a.n - b.n) < 1000
    ELSE Strip(PyStr(a)) = Strip(PyStr(b))

\* the keys of the extraction result that are compared
ComparableKeys == DOMAIN StoredAiResult \ {"description"}

\* C16: on finalize the stored comparable-field count is the number of keys of
\* the stored extraction result other than 'description', and the stored matched
\* count is the number of those keys whose value in the final values is present
\* (there and not null) and equal; keys only in the final values count nowhere,
\* keys missing from them count as comparable and not matched.
C16_MatchCounting ==
    JustFinalized =>
        /\ FinalizedRow.field_count = Cardinality(ComparableKeys)
        /\ FinalizedRow.matched_count =
               Cardinality({key \in ComparableKeys :
                               /\ key \in DOMAIN SentFinalValues
                               /\ SentFinalValues[key] # NullVal
                               /\ StatedEqual(StoredAiResult[key], SentFinalValues[key])})
        /\ JsonLoadsText(FinalizedRow.final_result) = fb_request.data.finalResult

\* four comparable keys next to a description: hours within the tolerance and the
\* category equal after trimming match, the tag differs, and the final values
\* hold a key the extraction result lacks
C16_Witness ==
    /\ JustFinalized
    /\ DOMAIN StoredAiResult = {"category", "hours", "team", "tag", "description"}
    /\ StoredAiResult.hours = NumVal(2500)
    /\ SentFinalValues = [category |-> StrVal(<<"A">>), hours |-> NumVal(2505),
                          team |-> StrVal(<<"T">>), tag |-> StrVal(<<"y">>),
                          note |-> StrVal(<<"n">>)]
    /\ FinalizedRow.field_count = 4
    /\ FinalizedRow.matched_count = 3

\* C17: a finalized record's accuracy is matched_count / field_count x 100 when
\* field_count > 0 and 0 when field_count = 0; every record, pending or
\* finalized, has 0 <= matched_count <= field_count and 0 <= accuracy <= 100.
C17_Accuracy ==
    \A i \in 1..Len(ai_feedback) :
        LET row == ai_feedback[i]
        IN /\ 0 <= row.matched_count
           /\ row.matched_count <= row.field_count
           /\ ~RatLess(row.accuracy, Percent(0))
           /\ ~RatLess(Percent(100), row.accuracy)
           /\ row.accuracy.den > 0
           /\ Finalized(row) =>
                  IF row.field_count > 0
                  THEN row.accuracy.num * row.field_count
                           = row.matched_count * 100 * row.accuracy.den
                  ELSE RatEqual(row.accuracy, Percent(0))

\* four comparable fields with three matched are stored as 75
C17_Witness ==
    /\ JustFinalized
    /\ FinalizedRow.field_count = 4
    /\ FinalizedRow.matched_count = 3
    /\ RatEqual(FinalizedRow.accuracy, Percent(75))

-----------------------------------------------------------------------------
(* Aggregation: records of two users over two days, in every accuracy tier *)

MaxAggRecords == 2     \* rows the table may hold in this specification

MaxAggClock == 2       \* ticks of the clock in this specification

\* user 1 records five comparable fields for session s1, user 2 two for s2
AggRecords ==
    { <<User1, RecordData("s1", "2.5h meeting",
                          JsonObject([category |-> StrVal(<<"A">>), hours |-> NumVal(2500),
                                      team |-> StrVal(<<"T">>), tag |-> StrVal(<<"x">>),
                                      task |-> StrVal(<<"k">>),
                                      description |-> StrVal(<<"u5F00", "u4F1A">>)]))>>,
      <<Admin2, RecordData("s2", "review",
                           JsonObject([category |-> StrVal(<<"A">>),
                                       hours |-> NumVal(2500)]))>> }

\* final values that keep the first `kept` of the five fields and change the rest
FinalKeeping(kept) ==
    JsonObject([category |-> StrVal(IF kept >= 1 THEN <<"A">> ELSE <<"B">>),
                hours |-> NumVal(IF kept >= 2 THEN 2500 ELSE 3000),
                team |-> StrVal(IF kept >= 3 THEN <<"T">> ELSE <<"U">>),
                tag |-> StrVal(IF kept >= 4 THEN <<"x">> ELSE <<"y">>),
                task |-> StrVal(IF kept >= 5 THEN <<"k">> ELSE <<"l">>)])

\* accuracies 20, 60, 80 and 100 for five fields, 50 and 100 for two
AggSubmits ==
    {SubmitData(s, FinalKeeping(kept), "t1") : s \in {"s1", "s2"}, kept \in {1, 3, 4, 5}}

\* start date, end date and user of the statistics requests
AggQueries ==
    { <<NoDate, NoDate, NoUser>>, <<NoDate, NoDate, 1>>, <<NoDate, NoDate, 2>>,
      <<1, NoDate, NoUser>>, <<NoDate, 0, NoUser>>, <<0, 0, 1>>, <<1, 1, 1>>,
      <<0, 1, 2>> }

NextAggregate ==
    \/ \E r \in Capped(AggRecords, MaxAggRecords) : RecordAiResult(r[1], r[2])
    \/ \E data \in AggSubmits : SubmitFinalResult(User1, data)
    \/ \E q \in AggQueries : GetStatistics(Admin2, q[1], q[2], q[3])
    \/ NextFeedbackRequest
    \/ Tick(MaxAggClock)

SpecAggregate == Init /\ [][NextAggregate]_vars

\* the statistics endpoint answered
StatisticsAnswered ==
    fb_pc = "done" /\ fb_request.op = "statistics" /\ fb_status = 200

Summary == fb_resp.data.summary

\* the row's creation date lies in the inclusive range of the request and the row
\* belongs to the user of the request, where one is given
InScope(row) ==
    /\ fb_request.startDate # NoDate => fb_request.startDate <= Date(row.created_at)
    /\ fb_request.endDate # NoDate => Date(row.created_at) <= fb_request.endDate
    /\ fb_request.userId # NoUser => row.user_id = fb_request.userId

\* the rows the claim has counted
Counted == {i \in 1..Len(ai_feedback) : Finalized(ai_feedback[i]) /\ InScope(ai_feedback[i])}

\* accuracy tiers of a row
High(row) == row.accuracy.num >= 80 * row.accuracy.den

Medium(row) ==
    /\ row.accuracy.num >= 50 * row.accuracy.den
    /\ row.accuracy.num < 80 * row.accuracy.den

Low(row) == row.accuracy.num < 50 * row.accuracy.den

\* C20: the statistics count the finalized records whose creation date lies in the
\* inclusive range and that belong to the user asked for, and nothing else: the
\* answer is the one the table without its pending rows would give; each counted
\* record is in exactly one tier (high >= 80, 50 <= medium < 80, low < 50), the
\* three tier counts add up to totalSessions, and with no counted record every
\* number of the answer is 0.
C20_Aggregate ==
    StatisticsAnswered =>
        /\ Summary.totalSessions = Cardinality(Counted)
        /\ Summary.totalFields = SumOver(ai_feedback, Counted, "field_count")
        /\ Summary.totalMatched = SumOver(ai_feedback, Counted, "matched_count")
        /\ Summary.highAccuracyCount = Cardinality({i \in Counted : High(ai_feedback[i])})
        /\ Summary.mediumAccuracyCount = Cardinality({i \in Counted : Medium(ai_feedback[i])})
        /\ Summary.lowAccuracyCount = Cardinality({i \in Counted : Low(ai_feedback[i])})
        /\ \A i \in Counted :
               LET row == ai_feedback[i]
               IN /\ High(row) \/ Medium(row) \/ Low(row)
                  /\ ~(High(row) /\ Medium(row))
                  /\ ~(High(row) /\ Low(row))
                  /\ ~(Medium(row) /\ Low(row))
        /\ Summary.highAccuracyCount + Summary.mediumAccuracyCount
               + Summary.lowAccuracyCount = Summary.totalSessions
        /\ Summary = AIFeedback_get_statistics(SelectSeq(ai_feedback, Finalized),
                                               fb_request.startDate, fb_request.endDate,
                                               fb_request.userId)
        /\ Counted = {} =>
               Summary = [totalSessions |-> 0, avgAccuracy |-> 0, totalFields |-> 0,
                          totalMatched |-> 0, highAccuracyCount |-> 0,
                          mediumAccuracyCount |-> 0, lowAccuracyCount |-> 0]

\* a request for one user and one day counts that user's finalized record of the
\* day, at the accuracy of exactly 80, and leaves out a finalized record of the
\* other user
C20_Witness ==
    /\ StatisticsAnswered
    /\ fb_request.startDate = 1
    /\ fb_request.endDate = 1
    /\ fb_request.userId = 1
    /\ Len(ai_feedback) = 2
    /\ \E i \in 1..2 : Finalized(ai_feedback[i]) /\ ~InScope(ai_feedback[i])
    /\ Summary.totalSessions = 1
    /\ Summary.highAccuracyCount = 1
    /\ Summary.avgAccuracy = 8000
    /\ Summary.totalFields = 5
    /\ Summary.totalMatched = 4

\* a pending record in the scope of the request next to a counted one
C20_PendingLeftOut ==
    /\ StatisticsAnswered
    /\ \E i \in 1..Len(ai_feedback) : Pending(ai_feedback[i]) /\ InScope(ai_feedback[i])
    /\ Summary.totalSessions = 1

-----------------------------------------------------------------------------
(* Sessions counted by the statistics *)

\* the sessions with a finalized record
FinalizedSessions ==
    {ai_feedback[i].session_id : i \in {j \in 1..Len(ai_feedback) : Finalized(ai_feedback[j])}}

\* the request asks for every date and every user
Unscoped ==
    /\ fb_request.startDate = NoDate
    /\ fb_request.endDate = NoDate
    /\ fb_request.userId = NoUser

\* C21: the statistics over every date and user report as totalSessions the number
\* of finalized sessions, a session with several extraction attempts and one
\* finalize counting once; one record finalized with all its compared values kept
\* gives totalSessions = 1 and avgAccuracy = 100.0.
C21_SessionsCountedOnce ==
    StatisticsAnswered /\ Unscoped =>
        /\ Summary.totalSessions = Cardinality(FinalizedSessions)
        /\ \A i \in 1..Len(ai_feedback) :
               /\ Len(ai_feedback) = 1
               /\ Finalized(ai_feedback[i])
               /\ ai_feedback[i].field_count > 0
               /\ ai_feedback[i].matched_count = ai_feedback[i].field_count
               => Summary.totalSessions = 1 /\ Summary.avgAccuracy = 10000

-----------------------------------------------------------------------------
(* Input errors: requests with a missing body or a missing member *)

MaxInputRecords == 1   \* rows the table may hold in this specification

InputBodies ==
    { NoBody, Body(<<>>, <<>>, None, <<>>), Body(<<>>, <<>>, "invest", <<"u6295", "u8D44", "u6CD5", "u52A1", "u90E8">>),
      Body(<<"u5F00", "u4F1A", "2", "h">>, <<>>, None, <<>>) }

InputUpstreams == { Completion(<<"<object>">>, [hours |-> NumVal(2000)]), Raises("Timeout") }

NextInput ==
    \/ \E b \in InputBodies : ParseTimesheet(b)
    \/ \E up \in InputUpstreams : UpstreamReturns(up)
    \/ NextRequest
    \/ \E token \in {NoToken, User1}, data \in Capped(LifeRecords, MaxInputRecords) :
           RecordAiResult(token, data)
    \/ \E token \in {NoToken, User1}, data \in LifeSubmits : SubmitFinalResult(token, data)
    \/ NextFeedbackRequest

SpecInput == Init /\ [][NextInput]_vars

\* a member of a request body that is missing, null or empty
Missing(member) == member = None \/ member = ""

\* the /parse body is missing, or has no message or an empty one
ParseInputError(b) == b.json # "object" \/ b.message = <<>>

RecordInputError(data) ==
    \/ data.json # "object"
    \/ Missing(data.sessionId)
    \/ Missing(data.userInput)
    \/ data.aiResult = JsonNull

SubmitInputError(data) ==
    \/ data.json # "object"
    \/ Missing(data.sessionId)
    \/ data.finalResult = JsonNull

\* C22: a /parse request with a missing body or an empty message is answered 400
\* and neither routes nor calls the upstream; a record request without session id,
\* input text or extraction result, and a submit request without session id or
\* final values, are answered 400 (401 when the token is missing or invalid, which
\* is checked first) and leave the table ai_feedback as it was.
C22_InputErrorsRejected ==
    [][ /\ pc = "idle" /\ pc' # "idle" /\ ParseInputError(body') =>
            /\ pc' = "done"
            /\ status' = 400
            /\ resp'.success = FALSE
            /\ UNCHANGED <<center, fields_info, business_prompt, hours_rule, posts, upstream>>
            /\ UNCHANGED feedback_vars
        /\ Handles("record") /\ RecordInputError(fb_request'.data) =>
            /\ fb_status' = IF fb_request'.token.valid THEN 400 ELSE 401
            /\ fb_resp'.success = FALSE
            /\ UNCHANGED ai_feedback
        /\ Handles("submit") /\ SubmitInputError(fb_request'.data) =>
            /\ fb_status' = IF fb_request'.token.valid THEN 400 ELSE 401
            /\ fb_resp'.success = FALSE
            /\ UNCHANGED ai_feedback ]_vars

\* an empty message was answered 400 without an upstream request, and a submit
\* without final values was answered 400 with a record in the table
C22_Witness ==
    /\ pc = "done"
    /\ body.json = "object"
    /\ body.message = <<>>
    /\ status = 400
    /\ posts = 0
    /\ center = None
    /\ fb_pc = "done"
    /\ fb_request.op = "submit"
    /\ fb_request.token.valid
    /\ fb_request.data.json = "object"
    /\ fb_request.data.finalResult = JsonNull
    /\ fb_status = 400
    /\ Len(ai_feedback) = 1
    /\ Pending(ai_feedback[1])

-----------------------------------------------------------------------------
(* A completion is never a failure *)

\* the upstream response holds a completion
HasCompletion == upstream.exc = "none" /\ upstream.choices = "ok"

\* C23: whenever the upstream response holds a completion, the answer is a success,
\* with the parsed and filtered data or with data = {} and parse_error = true,
\* whatever the completion text is: also for valid JSON that is no object.
C23_CompletionIsSuccess ==
    Answered /\ HasCompletion =>
        /\ resp.success = TRUE
        /\ \/ DOMAIN resp = {"success", "data", "raw"}
           \/ /\ DOMAIN resp = {"success", "data", "raw", "parse_error"}
              /\ resp.data = EmptyObject
              /\ resp.parse_error = TRUE

-----------------------------------------------------------------------------
(* Finalize calls that overlap *)

MaxOverlapRecords == 2   \* rows the table may hold in this specification

\* the extraction attempts of session s1
OverlapRecords == {RecordData("s1", "2.5h meeting", a) : a \in LifeAiResults}

\* final values with the id of the entry they were saved as
OverlapFinals ==
    { <<[category |-> StrVal(<<"A">>)], "t1">>,
      <<[category |-> StrVal(<<"B">>), hours |-> NumVal(2500)], "t2">> }

NextOverlap ==
    \/ \E data \in Capped(OverlapRecords, MaxOverlapRecords) : RecordAiResult(User1, data)
    \/ NextFeedbackRequest
    \/ \E p \in Calls, s \in {"s1", "s2"}, f \in OverlapFinals : FinalizeRead(p, s, f[1], f[2])
    \/ \E p \in Calls : FinalizeWrite(p)

SpecOverlap == Init /\ [][NextOverlap]_vars

\* the step is the write of call p, which had found a record of its session
Writes(p) == finalize[p].pc = "read" /\ finalize'[p].pc = "idle" /\ finalize[p].row

\* the counters and the accuracy of a row are those of the comparison of its own
\* extraction result with its own final values
Consistent(row) ==
    LET ai_result == JsonLoadsText(row.ai_result).members
        final_result == JsonLoadsText(row.final_result).members
    IN /\ row.field_count = FieldCount(ai_result)
       /\ row.matched_count = MatchedCount(ai_result, final_result)
       /\ row.accuracy = Accuracy(row.matched_count, row.field_count)

\* C24: last finalize wins.  Whenever a finalize call writes, with the session's
\* latest record still holding the extraction result the call has read, that
\* record afterwards holds the final values and the entry id of this call and
\* none of an earlier call's, and counters and accuracy computed from exactly
\* these final values; this holds with another call's read or write between the
\* read and the write of the call.
C24_LastFinalizeWins ==
    [][ \A p \in Calls :
          LET call == finalize[p]
              before == LatestRow(ai_feedback, call.session_id)
              after == LatestRow(ai_feedback', call.session_id)
          IN Writes(p) /\ before # 0 /\ ai_feedback[before].ai_result = call.ai_result =>
                 /\ after = before
                 /\ ai_feedback'[after].final_result = JsonDumps(JsonObject(call.final_result))
                 /\ ai_feedback'[after].timesheet_id = call.timesheet_id
                 /\ ai_feedback'[after].submitted_at # NullTime
                 /\ Consistent(ai_feedback'[after]) ]_vars

\* call 1 has read, call 2 has read and written other final values, and call 1 is
\* about to overwrite them
C24_Witness ==
    /\ finalize[1].pc = "read"
    /\ finalize[1].session_id = "s1"
    /\ finalize[1].row
    /\ finalize[2].pc = "idle"
    /\ Len(ai_feedback) = 1
    /\ Finalized(ai_feedback[1])
    /\ ai_feedback[1].timesheet_id = "t2"
    /\ finalize[1].timesheet_id = "t1"
    /\ ai_feedback[1].ai_result = finalize[1].ai_result

\* C25: in every state every finalized record's counters and accuracy are those of
\* the comparison of its own extraction result with its own final values.
C25_CountersOfOwnResult ==
    \A i \in 1..Len(ai_feedback) : Finalized(ai_feedback[i]) => Consistent(ai_feedback[i])

-----------------------------------------------------------------------------
(* Timesheet entries: the table timesheet_entries and its routes           *)

(* A row is kept by its id; the columns modelled are user_id, date, hours, *)
(* status, data, updated_at and submitted_at.  username, user_group and    *)
(* created_at are written and never read by the routes below.              *)

\* the table with the row of a key inserted or replaced
Put(table, key, row) ==
    [k \in DOMAIN table \cup {key} |-> IF k = key THEN row ELSE table[k]]

\* the table without the rows of a set of keys
Without(table, keys) == [k \in DOMAIN table \ keys |-> table[k]]

\* users.role of the two users of the model: user 1, administrator 2
UserRole(user_id) == IF user_id = 2 THEN "admin" ELSE "user"

\* TimesheetEntry.create: the INSERT fails on an id the table holds
TimesheetEntry_create(table, entry_id, user_id, date, hours, entry_status, data, now) ==
    IF entry_id \in DOMAIN table THEN [table |-> table, exc |-> "IntegrityError"]
    ELSE [table |-> Put(table, entry_id,
                        [user_id |-> user_id, date |-> date, hours |-> hours,
                         status |-> entry_status, data |-> JsonDumps(data),
                         updated_at |-> now, submitted_at |-> NullTime]),
          exc |-> "none"]

\* TimesheetEntry.update: UPDATE ... SET <fields>, updated_at = CURRENT_TIMESTAMP;
\* without a field the statement is "SET , updated_at", a syntax error
TimesheetEntry_update(table, entry_id, fields, now) ==
    IF DOMAIN fields = {} THEN [table |-> table, exc |-> "OperationalError"]
    ELSE IF entry_id \notin DOMAIN table THEN [table |-> table, exc |-> "none"]
    ELSE LET old == table[entry_id]
         IN [table |-> [table EXCEPT ![entry_id] =
                           [old EXCEPT
                               !.date = IF "date" \in DOMAIN fields THEN fields.date
                                        ELSE old.date,
                               !.hours = IF "hours" \in DOMAIN fields THEN fields.hours
                                         ELSE old.hours,
                               !.data = IF "data" \in DOMAIN fields
                                        THEN JsonDumps(fields.data) ELSE old.data,
                               !.updated_at = now]],
             exc |-> "none"]

\* TimesheetEntry.delete
TimesheetEntry_delete(table, entry_id) == Without(table, {entry_id})

\* the elements of a list
Range(list) == {list[i] : i \in 1..Len(list)}

\* TimesheetEntry.batch_delete: the table afterwards and cursor.rowcount
TimesheetEntry_batch_delete(table, entry_ids) ==
    [table |-> Without(table, Range(entry_ids)),
     deleted |-> Cardinality(DOMAIN table \cap Range(entry_ids))]

\* TimesheetEntry.submit
TimesheetEntry_submit(table, entry_id, now) ==
    IF entry_id \notin DOMAIN table THEN table
    ELSE [table EXCEPT ![entry_id] =
             [@ EXCEPT !.status = "submitted", !.submitted_at = now, !.updated_at = now]]

\* the row INSERT OR REPLACE writes for one entry of batch_create; the status
\* defaults to 'submitted', submitted_at is set for a status given as 'submitted'
ImportedRow(entry, now) ==
    [user_id |-> entry.user_id, date |-> entry.date, hours |-> entry.hours,
     status |-> IF entry.status = None THEN "submitted" ELSE entry.status,
     data |-> JsonDumps(entry.data),
     updated_at |-> now,
     submitted_at |-> IF entry.status = "submitted" THEN now ELSE NullTime]

\* TimesheetEntry.batch_create: every entry inserted, or replacing the row of its id
RECURSIVE TimesheetEntry_batch_create(_, _, _)
TimesheetEntry_batch_create(table, entries_list, now) ==
    IF entries_list = <<>> THEN table
    ELSE TimesheetEntry_batch_create(
             Put(table, Head(entries_list).id, ImportedRow(Head(entries_list), now)),
             Tail(entries_list), now)

\* update_entry without the check of the status
UpdateRefusal_status_unchecked(table, entry_id, user_id) ==
    IF entry_id \notin DOMAIN table THEN 404
    ELSE IF table[entry_id].user_id # user_id THEN 403
    ELSE 0

\* the checks of update_entry: the status of the refusal, 0 when it goes on
UpdateRefusal(table, entry_id, user_id) ==
    IF entry_id \notin DOMAIN table THEN 404
    ELSE IF table[entry_id].user_id # user_id THEN 403
    ELSE IF table[entry_id].status = "submitted" THEN 400
    ELSE 0

\* submit_entry without the check of the owner
SubmitRefusal_owner_unchecked(table, entry_id, user_id) ==
    IF entry_id \notin DOMAIN table THEN 404
    ELSE IF table[entry_id].status = "submitted" THEN 400
    ELSE 0

\* the checks of submit_entry
SubmitRefusal(table, entry_id, user_id) ==
    IF entry_id \notin DOMAIN table THEN 404
    ELSE IF table[entry_id].user_id # user_id THEN 403
    ELSE IF table[entry_id].status = "submitted" THEN 400
    ELSE 0

\* the checks of delete_entry: the owner and the administrators may delete
DeleteRefusal(table, entry_id, user_id) ==
    IF entry_id \notin DOMAIN table THEN 404
    ELSE IF table[entry_id].user_id # user_id /\ UserRole(user_id) # "admin" THEN 403
    ELSE 0

\* a timesheet request is taken up and answered
SheetHandled == ts_pc = "idle" /\ ts_pc' = "done"

\* a timesheet request answered with a status and without a change of the table
SheetAnswer(code) ==
    /\ ts_status' = code
    /\ UNCHANGED <<timesheet_entries, db_locked>>

(* A model method that raises between its first data-changing statement and *)
(* its commit leaves its connection open, with the transaction the failed   *)
(* statement began; the connection is closed when the interpreter collects  *)
(* it.  Until then every write of another connection waits for the timeout  *)
(* and raises "database is locked"; reads go on.                            *)

\* the interpreter collects the connection left open
CollectConnection ==
    /\ db_locked
    /\ db_locked' = FALSE
    /\ UNCHANGED <<ai_vars, sheet_vars, org_vars, config_vars, template_vars>>

\* POST /entries; `id` is None for a request without an id, which gets a new uuid
CreateEntry(token, data, uuid) ==
    /\ SheetHandled
    /\ ts_request' = [op |-> "create", token |-> token, data |-> data]
    /\ Falsy(data.id) => uuid \notin DOMAIN timesheet_entries
    /\ UNCHANGED outside_sheet
    /\ IF ~token.valid THEN SheetAnswer(401)
       ELSE IF Falsy(data.date) THEN SheetAnswer(400)
       ELSE IF db_locked THEN SheetAnswer(500)
       ELSE LET entry_id == IF Falsy(data.id) THEN uuid ELSE data.id
                created == TimesheetEntry_create(timesheet_entries, entry_id, token.user_id,
                                                 data.date, data.hours, data.status,
                                                 data.data, clock)
            IN /\ timesheet_entries' = created.table
               /\ ts_status' = IF created.exc = "none" THEN 200 ELSE 500
               /\ db_locked' = (created.exc = "IntegrityError")

\* PUT /entries/<entry_id>
UpdateEntry(token, entry_id, data) ==
    /\ SheetHandled
    /\ ts_request' = [op |-> "update", token |-> token, entry_id |-> entry_id, data |-> data]
    /\ UNCHANGED outside_sheet
    /\ IF ~token.valid THEN SheetAnswer(401)
       ELSE LET refusal == UpdateRefusal(timesheet_entries, entry_id, token.user_id)
                updated == TimesheetEntry_update(timesheet_entries, entry_id, data, clock)
            IN IF refusal # 0 THEN SheetAnswer(refusal)
               ELSE IF db_locked /\ updated.exc = "none" THEN SheetAnswer(500)
               ELSE /\ timesheet_entries' = updated.table
                    /\ ts_status' = IF updated.exc = "none" THEN 200 ELSE 500
                    /\ UNCHANGED db_locked

\* DELETE /entries/<entry_id>
DeleteEntry(token, entry_id) ==
    /\ SheetHandled
    /\ ts_request' = [op |-> "delete", token |-> token, entry_id |-> entry_id]
    /\ UNCHANGED outside_sheet
    /\ IF ~token.valid THEN SheetAnswer(401)
       ELSE LET refusal == DeleteRefusal(timesheet_entries, entry_id, token.user_id)
            IN IF refusal # 0 THEN SheetAnswer(refusal)
               ELSE IF db_locked THEN SheetAnswer(500)
               ELSE /\ timesheet_entries' = TimesheetEntry_delete(timesheet_entries, entry_id)
                    /\ ts_status' = 200
                    /\ UNCHANGED db_locked

\* POST /entries/<entry_id>/submit
SubmitEntry(token, entry_id) ==
    /\ SheetHandled
    /\ ts_request' = [op |-> "submit", token |-> token, entry_id |-> entry_id]
    /\ UNCHANGED outside_sheet
    /\ IF ~token.valid THEN SheetAnswer(401)
       ELSE LET refusal == SubmitRefusal(timesheet_entries, entry_id, token.user_id)
            IN IF refusal # 0 THEN SheetAnswer(refusal)
               ELSE IF db_locked THEN SheetAnswer(500)
               ELSE /\ timesheet_entries' =
                           TimesheetEntry_submit(timesheet_entries, entry_id, clock)
                    /\ ts_status' = 200
                    /\ UNCHANGED db_locked

\* the loop of batch_submit: the entries of the requester that are not submitted
RECURSIVE SubmitEach(_, _, _, _)
SubmitEach(table, entry_ids, user_id, now) ==
    IF entry_ids = <<>> THEN table
    ELSE LET entry_id == Head(entry_ids)
             mine == /\ entry_id \in DOMAIN table
                     /\ table[entry_id].user_id = user_id
                     /\ table[entry_id].status # "submitted"
         IN SubmitEach(IF mine THEN TimesheetEntry_submit(table, entry_id, now) ELSE table,
                       Tail(entry_ids), user_id, now)

\* POST /entries/batch-submit
BatchSubmit(token, entry_ids) ==
    /\ SheetHandled
    /\ ts_request' = [op |-> "batch-submit", token |-> token, ids |-> entry_ids]
    /\ UNCHANGED outside_sheet
    /\ IF ~token.valid THEN SheetAnswer(401)
       ELSE IF entry_ids = <<>> THEN SheetAnswer(400)
       ELSE LET submitted == SubmitEach(timesheet_entries, entry_ids, token.user_id, clock)
            IN IF db_locked /\ submitted # timesheet_entries
               THEN SheetAnswer(500)        \* the first submit of the loop raises
               ELSE /\ timesheet_entries' = submitted
                    /\ ts_status' = 200
                    /\ UNCHANGED db_locked

\* POST /entries/batch-import, for administrators only
BatchImport(token, entries) ==
    /\ SheetHandled
    /\ ts_request' = [op |-> "batch-import", token |-> token, entries |-> entries]
    /\ UNCHANGED outside_sheet
    /\ IF ~token.valid THEN SheetAnswer(401)
       ELSE IF UserRole(token.user_id) # "admin" THEN SheetAnswer(403)
       ELSE IF entries = <<>> THEN SheetAnswer(400)
       ELSE \E failed \in 0..Len(entries) :
                \* batch_create goes on after an entry that raised: with the database
                \* locked the entries fail until the lock is gone
                /\ failed > 0 => db_locked
                /\ db_locked' = (db_locked /\ failed = Len(entries))
                /\ timesheet_entries' =
                       TimesheetEntry_batch_create(
                           timesheet_entries,
                           SubSeq(entries, failed + 1, Len(entries)), clock)
                /\ ts_status' = 200

\* POST /entries/batch-delete, for administrators only
BatchDelete(token, entry_ids) ==
    /\ SheetHandled
    /\ ts_request' = [op |-> "batch-delete", token |-> token, ids |-> entry_ids]
    /\ UNCHANGED outside_sheet
    /\ IF ~token.valid THEN SheetAnswer(401)
       ELSE IF UserRole(token.user_id) # "admin" THEN SheetAnswer(403)
       ELSE IF entry_ids = <<>> THEN SheetAnswer(400)
       ELSE IF db_locked THEN SheetAnswer(500)
       ELSE /\ timesheet_entries' =
                   TimesheetEntry_batch_delete(timesheet_entries, entry_ids).table
            /\ ts_status' = 200
            /\ UNCHANGED db_locked

\* the answer was sent: the next timesheet request can come
NextSheetRequest ==
    /\ ts_pc = "done"
    /\ ts_pc' = "idle"
    /\ ts_request' = NoRequest
    /\ ts_status' = 0
    /\ UNCHANGED <<timesheet_entries, db_locked>>
    /\ UNCHANGED outside_sheet

-----------------------------------------------------------------------------
(* Timesheet requests of a user and an administrator *)

MaxSheetClock == 1     \* ticks of the clock in this specification

SheetIds == {"e1", "e2"}

DocA == JsonObject([task |-> StrVal(<<"A">>)])

DocB == JsonObject([task |-> StrVal(<<"B">>), note |-> StrVal(<<"u4F1A", "u8BAE">>)])

\* bodies of POST /entries: without an id, with an id, as submitted, without a date
SheetCreates ==
    { [id |-> None, date |-> "2024-05-06", hours |-> 2000, status |-> "draft", data |-> DocA],
      [id |-> "e1", date |-> "2024-05-06", hours |-> 2000, status |-> "draft", data |-> DocA],
      [id |-> None, date |-> "2024-05-06", hours |-> 2000, status |-> "submitted",
       data |-> DocA],
      [id |-> None, date |-> None, hours |-> 2000, status |-> "draft", data |-> DocA] }

\* bodies of PUT /entries/<id>: every field, one field, no field
SheetUpdates ==
    { [date |-> "2024-05-07", hours |-> 3000, data |-> DocB], [hours |-> 3000],
      EmptyObject }

ImportedEntry(id, user_id, entry_status) ==
    [id |-> id, user_id |-> user_id, date |-> "2024-05-07", hours |-> 3000,
     status |-> entry_status, data |-> DocB]

SheetImports ==
    { <<>>, <<ImportedEntry("e1", 1, "draft")>>,
      <<ImportedEntry("e1", 1, None), ImportedEntry("e2", 2, "submitted")>> }

SheetIdLists == { <<>>, <<"e1">>, <<"e1", "e2">> }

NextSheet ==
    \/ \E token \in {NoToken, User1, Admin2}, data \in SheetCreates, uuid \in SheetIds :
           CreateEntry(token, data, uuid)
    \/ \E token \in {NoToken, User1, Admin2}, id \in SheetIds, data \in SheetUpdates :
           UpdateEntry(token, id, data)
    \/ \E token \in {NoToken, User1, Admin2}, id \in SheetIds : DeleteEntry(token, id)
    \/ \E token \in {NoToken, User1, Admin2}, id \in SheetIds : SubmitEntry(token, id)
    \/ \E token \in {NoToken, User1, Admin2}, ids \in SheetIdLists : BatchSubmit(token, ids)
    \/ \E token \in {NoToken, User1, Admin2}, entries \in SheetImports :
           BatchImport(token, entries)
    \/ \E token \in {NoToken, User1, Admin2}, ids \in SheetIdLists : BatchDelete(token, ids)
    \/ NextSheetRequest
    \/ CollectConnection
    \/ Tick(MaxSheetClock)

SpecSheet == Init /\ [][NextSheet]_vars

\* the step handles a request of the endpoint, sent with a valid token
SheetHandles(op) == SheetHandled /\ ts_request'.op = op /\ ts_request'.token.valid

\* C26: update_entry and submit_entry answer 404 for an entry that does not exist,
\* 403 for a requester who is not the owner and 400 for an entry that is submitted
\* already, and change nothing then: a submitted entry keeps its date, hours, data
\* and submitted_at through every update and every repeated submit.
C26_RefusedWithoutChange ==
    [][ \A op \in {"update", "submit"} :
          SheetHandles(op) =>
              LET id == ts_request'.entry_id
                  user == ts_request'.token.user_id
                  exists == id \in DOMAIN timesheet_entries
              IN /\ ~exists => ts_status' = 404 /\ UNCHANGED timesheet_entries
                 /\ exists /\ timesheet_entries[id].user_id # user =>
                        ts_status' = 403 /\ UNCHANGED timesheet_entries
                 /\ /\ exists
                    /\ timesheet_entries[id].user_id = user
                    /\ timesheet_entries[id].status = "submitted"
                    => ts_status' = 400 /\ UNCHANGED timesheet_entries
                 /\ exists /\ timesheet_entries[id].status = "submitted" =>
                        /\ id \in DOMAIN timesheet_entries'
                        /\ timesheet_entries'[id].date = timesheet_entries[id].date
                        /\ timesheet_entries'[id].hours = timesheet_entries[id].hours
                        /\ timesheet_entries'[id].data = timesheet_entries[id].data
                        /\ timesheet_entries'[id].submitted_at
                               = timesheet_entries[id].submitted_at ]_vars

\* the owner's second submit of an entry, after the clock has moved on, was answered
\* 400 and the entry still has the time of its first submit
C26_Witness ==
    /\ ts_pc = "done"
    /\ ts_request.op = "submit"
    /\ ts_request.token = User1
    /\ ts_status = 400
    /\ ts_request.entry_id \in DOMAIN timesheet_entries
    /\ timesheet_entries[ts_request.entry_id].user_id = 1
    /\ timesheet_entries[ts_request.entry_id].status = "submitted"
    /\ timesheet_entries[ts_request.entry_id].submitted_at = 0
    /\ clock = 1

\* the entry is submitted before the step and deleted by it
Disappears(id) == id \in DOMAIN timesheet_entries /\ id \notin DOMAIN timesheet_entries'

\* the step is a delete the owner of the entry or an administrator has asked for
DeletedOnRequest(id) ==
    /\ SheetHandled
    /\ ts_status' = 200
    /\ \/ /\ ts_request'.op = "delete"
          /\ ts_request'.entry_id = id
          /\ \/ ts_request'.token.user_id = timesheet_entries[id].user_id
             \/ UserRole(ts_request'.token.user_id) = "admin"
       \/ /\ ts_request'.op = "batch-delete"
          /\ id \in Range(ts_request'.ids)
          /\ UserRole(ts_request'.token.user_id) = "admin"

\* the entry keeps its status, date, hours and data in the step
Kept(id) ==
    /\ timesheet_entries'[id].status = timesheet_entries[id].status
    /\ timesheet_entries'[id].date = timesheet_entries[id].date
    /\ timesheet_entries'[id].hours = timesheet_entries[id].hours
    /\ timesheet_entries'[id].data = timesheet_entries[id].data

\* C27 as stated: a submitted entry is never returned to 'draft' nor changed in
\* date, hours or data by create, update, submit, batch-submit or batch-import; it
\* can only disappear, through a delete by its owner or an administrator.
C27_SubmittedAsStated ==
    [][ \A id \in DOMAIN timesheet_entries :
          timesheet_entries[id].status = "submitted" =>
              IF Disappears(id) THEN DeletedOnRequest(id) ELSE Kept(id) ]_vars

\* the step is an administrator's batch import that names the entry
ImportedOver(id) ==
    /\ SheetHandled
    /\ ts_request'.op = "batch-import"
    /\ ts_status' = 200
    /\ UserRole(ts_request'.token.user_id) = "admin"
    /\ \E i \in 1..Len(ts_request'.entries) : ts_request'.entries[i].id = id

\* the last entry of an import that carries the id
LastImported(id) ==
    LET entries == ts_request'.entries
        last == Max({i \in 1..Len(entries) : entries[i].id = id})
    IN entries[last]

\* the entry holds what the last imported entry of its id carries
Imported(id) ==
    LET entry == LastImported(id)
    IN /\ timesheet_entries'[id].status
              = IF entry.status = None THEN "submitted" ELSE entry.status
       /\ timesheet_entries'[id].user_id = entry.user_id
       /\ timesheet_entries'[id].date = entry.date
       /\ timesheet_entries'[id].hours = entry.hours
       /\ timesheet_entries'[id].data = JsonDumps(entry.data)

\* C27 amended: create, update, submit and batch-submit never return a submitted
\* entry to 'draft' nor change its date, hours or data, and it disappears only
\* through a delete by its owner or an administrator; only a batch import by an
\* administrator that names the entry's id can change it, and the entry then
\* holds the imported status, owner, date, hours and data.
C27_Submitted ==
    [][ \A id \in DOMAIN timesheet_entries :
          timesheet_entries[id].status = "submitted" =>
              IF Disappears(id) THEN DeletedOnRequest(id)
              ELSE \/ Kept(id) /\ timesheet_entries'[id].user_id = timesheet_entries[id].user_id
                   \/ ImportedOver(id) /\ Imported(id) ]_vars

\* an administrator's import has stored entry e1 as a draft with the imported
\* values, next to the entry e2 that was submitted before and is as it was
C27_Witness ==
    /\ ts_pc = "done"
    /\ ts_request.op = "batch-import"
    /\ ts_status = 200
    /\ "e1" \in DOMAIN timesheet_entries
    /\ timesheet_entries["e1"].status = "draft"
    /\ timesheet_entries["e1"].date = "2024-05-07"
    /\ timesheet_entries["e1"].updated_at = 1
    /\ "e2" \in DOMAIN timesheet_entries
    /\ timesheet_entries["e2"].status = "submitted"
    /\ timesheet_entries["e2"].submitted_at = 0
    /\ timesheet_entries["e2"].date = "2024-05-06"


(* ------------------------------------------------------------------ *)
(* The organization routes: departments, teams and groups.  A row is  *)
(* modelled by its name and its reference to the level above; the     *)
(* description, the leader and the timestamps decide nothing in the   *)
(* routes.  Names are written by code point.                          *)
(* ------------------------------------------------------------------ *)

\* a row of another id carries the name (UNIQUE column)
NameTaken(table, id, name) == \E k \in DOMAIN table \ {id} : table[k].name = name

\* Department.create: None when the INSERT breaks the primary key or the unique name
Department_create(table, dept_id, name) ==
    IF dept_id \in DOMAIN table \/ NameTaken(table, dept_id, name)
    THEN [table |-> table, result |-> None]
    ELSE [table |-> Put(table, dept_id, [name |-> name]), result |-> dept_id]

\* Department.update: the UPDATE sets every column the route passes; a missing
\* name is NULL in a NOT NULL column
Department_update(table, dept_id, name) ==
    IF dept_id \notin DOMAIN table THEN [table |-> table, exc |-> "none"]
    ELSE IF name = None \/ NameTaken(table, dept_id, name)
    THEN [table |-> table, exc |-> "IntegrityError"]
    ELSE [table |-> [table EXCEPT ![dept_id].name = name], exc |-> "none"]

Department_delete(table, dept_id) == Without(table, {dept_id})

\* Team.create
Team_create(table, team_id, name, department_id) ==
    IF team_id \in DOMAIN table \/ NameTaken(table, team_id, name)
    THEN [table |-> table, result |-> None]
    ELSE [table |-> Put(table, team_id, [name |-> name, department_id |-> department_id]),
          result |-> team_id]

\* Team.find_by_department: the ids of the rows found
Team_find_by_department(table, department_id) ==
    {t \in DOMAIN table : table[t].department_id = department_id}

\* Team.update
Team_update(table, team_id, name, department_id) ==
    IF team_id \notin DOMAIN table THEN [table |-> table, exc |-> "none"]
    ELSE IF name = None \/ department_id = None \/ NameTaken(table, team_id, name)
    THEN [table |-> table, exc |-> "IntegrityError"]
    ELSE [table |-> [table EXCEPT ![team_id] = [name |-> name, department_id |-> department_id]],
          exc |-> "none"]

Team_delete(table, team_id) == Without(table, {team_id})

\* Group.create: the name of a group is not unique in the table
Group_create(table, group_id, name, team_id) ==
    IF group_id \in DOMAIN table
    THEN [table |-> table, result |-> None]
    ELSE [table |-> Put(table, group_id, [name |-> name, team_id |-> team_id]),
          result |-> group_id]

\* Group.find_by_team: the ids of the rows found
Group_find_by_team(table, team_id) == {g \in DOMAIN table : table[g].team_id = team_id}

\* Group.update
Group_update(table, group_id, name, team_id) ==
    IF group_id \notin DOMAIN table THEN [table |-> table, exc |-> "none"]
    ELSE IF name = None \/ team_id = None
    THEN [table |-> table, exc |-> "IntegrityError"]
    ELSE [table |-> [table EXCEPT ![group_id] = [name |-> name, team_id |-> team_id]],
          exc |-> "none"]

Group_delete(table, group_id) == Without(table, {group_id})

(* The handlers.  A request is served by one of the server's threads; a  *)
(* handler with one statement is one step, the delete of a department or *)
(* of a team is its SELECT and then its DELETE, each on a connection of  *)
(* its own, and other requests run in between.                           *)

\* the thread is not between the two statements of a delete
OrgFree(p) == org[p].pc # "checked"

\* the thread answers its request; the locals of the handler are gone
OrgAnswer(p, code) ==
    org' = [org EXCEPT ![p] = [pc |-> "done", op |-> "none", id |-> None, status |-> code]]

\* token_required, then the role test every handler starts with
OrgRefusal(token) ==
    IF ~token.valid THEN 401
    ELSE IF UserRole(token.user_id) # "admin" THEN 403
    ELSE 0

\* POST /departments; dept_id is the id made of the time in milliseconds
CreateDepartment(p, token, data, dept_id) ==
    /\ OrgFree(p)
    /\ LET refusal == OrgRefusal(token)
           created == Department_create(departments, dept_id, data.name)
       IN IF refusal # 0
          THEN OrgAnswer(p, refusal) /\ UNCHANGED departments
          ELSE IF Falsy(data.name)
          THEN OrgAnswer(p, 400) /\ UNCHANGED departments
          ELSE IF db_locked
          THEN OrgAnswer(p, 500) /\ UNCHANGED departments
          ELSE /\ departments' = created.table
               /\ OrgAnswer(p, IF created.result # None THEN 200 ELSE 400)
    /\ UNCHANGED <<teams, groups_table, db_locked>>
    /\ UNCHANGED outside_org

\* PUT /departments/<dept_id>
UpdateDepartment(p, token, dept_id, data) ==
    /\ OrgFree(p)
    /\ LET refusal == OrgRefusal(token)
           updated == Department_update(departments, dept_id, data.name)
       IN IF refusal # 0
          THEN OrgAnswer(p, refusal)
               /\ UNCHANGED <<departments, db_locked>>
          ELSE IF db_locked
          THEN OrgAnswer(p, 500)
               /\ UNCHANGED <<departments, db_locked>>
          ELSE /\ departments' = updated.table
               /\ db_locked' = (updated.exc = "IntegrityError")
               /\ OrgAnswer(p, IF updated.exc = "none" THEN 200 ELSE 500)
    /\ UNCHANGED <<teams, groups_table>>
    /\ UNCHANGED outside_org

\* DELETE /departments/<dept_id>, up to the test of the teams found
DeleteDepartmentCheck(p, token, dept_id) ==
    /\ OrgFree(p)
    /\ LET refusal == OrgRefusal(token)
       IN IF refusal # 0
          THEN OrgAnswer(p, refusal)
          ELSE IF Team_find_by_department(teams, dept_id) # {}
          THEN OrgAnswer(p, 400)
          ELSE org' = [org EXCEPT ![p] = [pc |-> "checked", op |-> "delete-department",
                                          id |-> dept_id, status |-> 0]]
    /\ UNCHANGED <<departments, teams, groups_table, db_locked>>
    /\ UNCHANGED outside_org

\* DELETE /departments/<dept_id>, from Department.delete on
DeleteDepartmentWrite(p) ==
    /\ org[p].pc = "checked"
    /\ org[p].op = "delete-department"
    /\ IF db_locked
       THEN OrgAnswer(p, 500) /\ UNCHANGED departments
       ELSE /\ departments' = Department_delete(departments, org[p].id)
            /\ OrgAnswer(p, 200)
    /\ UNCHANGED <<teams, groups_table, db_locked>>
    /\ UNCHANGED outside_org

\* POST /teams
CreateTeam(p, token, data, team_id) ==
    /\ OrgFree(p)
    /\ LET refusal == OrgRefusal(token)
           created == Team_create(teams, team_id, data.name, data.departmentId)
       IN IF refusal # 0
          THEN OrgAnswer(p, refusal) /\ UNCHANGED teams
          ELSE IF Falsy(data.name) \/ Falsy(data.departmentId)
          THEN OrgAnswer(p, 400) /\ UNCHANGED teams
          ELSE IF db_locked
          THEN OrgAnswer(p, 500) /\ UNCHANGED teams
          ELSE /\ teams' = created.table
               /\ OrgAnswer(p, IF created.result # None THEN 200 ELSE 400)
    /\ UNCHANGED <<departments, groups_table, db_locked>>
    /\ UNCHANGED outside_org

\* PUT /teams/<team_id>
UpdateTeam(p, token, team_id, data) ==
    /\ OrgFree(p)
    /\ LET refusal == OrgRefusal(token)
           updated == Team_update(teams, team_id, data.name, data.departmentId)
       IN IF refusal # 0
          THEN OrgAnswer(p, refusal) /\ UNCHANGED <<teams, db_locked>>
          ELSE IF db_locked
          THEN OrgAnswer(p, 500) /\ UNCHANGED <<teams, db_locked>>
          ELSE /\ teams' = updated.table
               /\ db_locked' = (updated.exc = "IntegrityError")
               /\ OrgAnswer(p, IF updated.exc = "none" THEN 200 ELSE 500)
    /\ UNCHANGED <<departments, groups_table>>
    /\ UNCHANGED outside_org

\* DELETE /teams/<team_id>, up to the test of the groups found
DeleteTeamCheck(p, token, team_id) ==
    /\ OrgFree(p)
    /\ LET refusal == OrgRefusal(token)
       IN IF refusal # 0
          THEN OrgAnswer(p, refusal)
          ELSE IF Group_find_by_team(groups_table, team_id) # {}
          THEN OrgAnswer(p, 400)
          ELSE org' = [org EXCEPT ![p] = [pc |-> "checked", op |-> "delete-team",
                                          id |-> team_id, status |-> 0]]
    /\ UNCHANGED <<departments, teams, groups_table, db_locked>>
    /\ UNCHANGED outside_org

\* DELETE /teams/<team_id>, from Team.delete on
DeleteTeamWrite(p) ==
    /\ org[p].pc = "checked"
    /\ org[p].op = "delete-team"
    /\ IF db_locked
       THEN OrgAnswer(p, 500) /\ UNCHANGED teams
       ELSE /\ teams' = Team_delete(teams, org[p].id)
            /\ OrgAnswer(p, 200)
    /\ UNCHANGED <<departments, groups_table, db_locked>>
    /\ UNCHANGED outside_org

\* POST /groups
CreateGroup(p, token, data, group_id) ==
    /\ OrgFree(p)
    /\ LET refusal == OrgRefusal(token)
           created == Group_create(groups_table, group_id, data.name, data.teamId)
       IN IF refusal # 0
          THEN OrgAnswer(p, refusal) /\ UNCHANGED groups_table
          ELSE IF Falsy(data.name) \/ Falsy(data.teamId)
          THEN OrgAnswer(p, 400) /\ UNCHANGED groups_table
          ELSE IF db_locked
          THEN OrgAnswer(p, 500) /\ UNCHANGED groups_table
          ELSE /\ groups_table' = created.table
               /\ OrgAnswer(p, IF created.result # None THEN 200 ELSE 400)
    /\ UNCHANGED <<departments, teams, db_locked>>
    /\ UNCHANGED outside_org

\* PUT /groups/<group_id>
UpdateGroup(p, token, group_id, data) ==
    /\ OrgFree(p)
    /\ LET refusal == OrgRefusal(token)
           updated == Group_update(groups_table, group_id, data.name, data.teamId)
       IN IF refusal # 0
          THEN OrgAnswer(p, refusal)
               /\ UNCHANGED <<groups_table, db_locked>>
          ELSE IF db_locked
          THEN OrgAnswer(p, 500)
               /\ UNCHANGED <<groups_table, db_locked>>
          ELSE /\ groups_table' = updated.table
               /\ db_locked' = (updated.exc = "IntegrityError")
               /\ OrgAnswer(p, IF updated.exc = "none" THEN 200 ELSE 500)
    /\ UNCHANGED <<departments, teams>>
    /\ UNCHANGED outside_org

\* DELETE /groups/<group_id>
DeleteGroup(p, token, group_id) ==
    /\ OrgFree(p)
    /\ LET refusal == OrgRefusal(token)
       IN IF refusal # 0
          THEN OrgAnswer(p, refusal) /\ UNCHANGED groups_table
          ELSE IF db_locked
          THEN OrgAnswer(p, 500) /\ UNCHANGED groups_table
          ELSE /\ groups_table' = Group_delete(groups_table, group_id)
               /\ OrgAnswer(p, 200)
    /\ UNCHANGED <<departments, teams, db_locked>>
    /\ UNCHANGED outside_org

(* ------------------------------------------------------------------ *)
(* C28: deletes of departments and teams under concurrent requests     *)
(* ------------------------------------------------------------------ *)

OrgTokens == {NoToken, User1, Admin2}

\* the ids a create makes from the time, one per table
NewDeptIds == {"dept-1"}

NewTeamIds == {"team-1"}

NewGroupIds == {"group-1"}

DeptIds == {"dept-001"} \cup NewDeptIds

OrgTeamIds == {"team-001", "team-002"} \cup NewTeamIds

OrgGroupIds == {"group-001"} \cup NewGroupIds

DeptData == {[name |-> "D"], [name |-> None]}

TeamData ==
    {[name |-> "T", departmentId |-> d] : d \in DeptIds}
        \cup {[name |-> None, departmentId |-> None]}

GroupData ==
    {[name |-> "G", teamId |-> t] : t \in {"team-001"} \cup NewTeamIds}
        \cup {[name |-> None, teamId |-> None]}

NextOrg ==
    \/ \E p \in Calls, token \in OrgTokens :
          \/ \E data \in DeptData, dept_id \in NewDeptIds :
                CreateDepartment(p, token, data, dept_id)
          \/ \E dept_id \in NewDeptIds, data \in DeptData :
                UpdateDepartment(p, token, dept_id, data)
          \/ \E dept_id \in DeptIds : DeleteDepartmentCheck(p, token, dept_id)
          \/ \E data \in TeamData, team_id \in NewTeamIds :
                CreateTeam(p, token, data, team_id)
          \/ \E team_id \in NewTeamIds, data \in TeamData :
                UpdateTeam(p, token, team_id, data)
          \/ \E team_id \in OrgTeamIds : DeleteTeamCheck(p, token, team_id)
          \/ \E data \in GroupData, group_id \in NewGroupIds :
                CreateGroup(p, token, data, group_id)
          \/ \E group_id \in NewGroupIds, data \in GroupData :
                UpdateGroup(p, token, group_id, data)
          \/ \E group_id \in OrgGroupIds : DeleteGroup(p, token, group_id)
    \/ \E p \in Calls : DeleteDepartmentWrite(p)
    \/ \E p \in Calls : DeleteTeamWrite(p)
    \/ CollectConnection

SpecOrg == Init /\ [][NextOrg]_vars

\* the step is the DELETE statement of a delete request that is answered 200
DeleteSucceeds(p, op) ==
    /\ org[p].pc = "checked"
    /\ org[p].op = op
    /\ org'[p].pc = "done"
    /\ org'[p].status = 200

\* C28: under every interleaving of organization requests, a delete_department
\* that succeeds leaves no team whose department_id is the deleted department,
\* and a delete_team that succeeds leaves no group whose team_id is the deleted
\* team.
C28_DeleteLeavesNoReference ==
    [][ \A p \in Calls :
          /\ DeleteSucceeds(p, "delete-department")
                => Team_find_by_department(teams', org[p].id) = {}
          /\ DeleteSucceeds(p, "delete-team")
                => Group_find_by_team(groups_table', org[p].id) = {} ]_vars

(* ------------------------------------------------------------------ *)
(* The AI configuration routes                                         *)
(* ------------------------------------------------------------------ *)

\* the values update_ai_config lets through
AiModes == {"off", "selective", "all"}

\* SystemConfig.get: the value of the row, the default when there is none
SystemConfig_get(table, key, default) ==
    IF key \in DOMAIN table THEN table[key] ELSE default

\* SystemConfig.set: insert, or update on a conflict of the key
SystemConfig_set(table, key, value) == Put(table, key, value)

\* whether the user may use the extraction, with only the user's own flag looked at
CanUseAi_flag_only(ai_mode, user_ai_enabled) == user_ai_enabled

\* get_ai_config: whether the user may use the extraction
CanUseAi(ai_mode, user_ai_enabled) ==
    IF ai_mode = "all" THEN TRUE
    ELSE IF ai_mode = "selective" THEN user_ai_enabled
    ELSE FALSE

\* the step answers a request of the AI configuration routes
ConfigHandled == cfg_pc = "idle" /\ cfg_pc' = "done"

\* an answer that changes nothing
ConfigAnswer(code) ==
    /\ cfg_status' = code
    /\ cfg_resp' = [success |-> FALSE]
    /\ UNCHANGED <<system_config, ai_enabled, db_locked>>

\* GET /ai-config
GetAiConfig(token) ==
    /\ cfg_pc = "idle"
    /\ cfg_pc' = "done"
    /\ cfg_request' = [op |-> "get-ai-config", token |-> token]
    /\ IF ~token.valid THEN ConfigAnswer(401)
       ELSE IF token.user_id \notin Users THEN ConfigAnswer(404)
       ELSE LET ai_mode == SystemConfig_get(system_config, "ai_mode", "off")
                user_ai_enabled == ai_enabled[token.user_id] # 0
            IN /\ cfg_status' = 200
               /\ cfg_resp' = [success |-> TRUE,
                               aiMode |-> ai_mode,
                               userAiEnabled |-> user_ai_enabled,
                               canUseAi |-> CanUseAi(ai_mode, user_ai_enabled)]
               /\ UNCHANGED <<system_config, ai_enabled, db_locked>>
    /\ UNCHANGED outside_config

\* PUT /ai-config; a token of a user that is gone raises on admin['role'], a
\* request without a JSON body on data.get
UpdateAiConfig(token, data) ==
    /\ cfg_pc = "idle"
    /\ cfg_pc' = "done"
    /\ cfg_request' = [op |-> "update-ai-config", token |-> token, data |-> data]
    /\ IF ~token.valid THEN ConfigAnswer(401)
       ELSE IF token.user_id \notin Users THEN ConfigAnswer(500)
       ELSE IF UserRole(token.user_id) # "admin" THEN ConfigAnswer(403)
       ELSE IF ~data.json THEN ConfigAnswer(500)
       ELSE IF data.aiMode \notin AiModes THEN ConfigAnswer(400)
       ELSE IF db_locked THEN ConfigAnswer(500)
       ELSE /\ system_config' = SystemConfig_set(system_config, "ai_mode", data.aiMode)
            /\ cfg_status' = 200
            /\ cfg_resp' = [success |-> TRUE, aiMode |-> data.aiMode]
            /\ UNCHANGED <<ai_enabled, db_locked>>
    /\ UNCHANGED outside_config

\* PUT /users/<user_id>/ai-enabled
UpdateUserAiEnabled(token, user_id, data) ==
    /\ cfg_pc = "idle"
    /\ cfg_pc' = "done"
    /\ cfg_request' = [op |-> "update-user-ai-enabled", token |-> token,
                       user_id |-> user_id, data |-> data]
    /\ IF ~token.valid THEN ConfigAnswer(401)
       ELSE IF token.user_id \notin Users THEN ConfigAnswer(500)
       ELSE IF UserRole(token.user_id) # "admin" THEN ConfigAnswer(403)
       ELSE IF user_id \notin Users THEN ConfigAnswer(404)
       ELSE IF ~data.json THEN ConfigAnswer(500)
       ELSE IF db_locked THEN ConfigAnswer(500)
       ELSE /\ ai_enabled' = [ai_enabled EXCEPT ![user_id] = IF data.aiEnabled = "true" THEN 1 ELSE 0]
            /\ cfg_status' = 200
            /\ cfg_resp' = [success |-> TRUE, aiEnabled |-> data.aiEnabled = "true"]
            /\ UNCHANGED <<system_config, db_locked>>
    /\ UNCHANGED outside_config

\* the next request of the AI configuration routes arrives
NextConfigRequest ==
    /\ cfg_pc = "done"
    /\ cfg_pc' = "idle"
    /\ UNCHANGED <<cfg_request, cfg_status, cfg_resp, system_config, ai_enabled, db_locked>>
    /\ UNCHANGED outside_config

(* ------------------------------------------------------------------ *)
(* C29: the stored AI mode and the reported canUseAi                   *)
(* ------------------------------------------------------------------ *)

\* a token of user 3, who is not in the table users
Gone3 == Token(3, FALSE)

ConfigTokens == {NoToken, User1, Admin2, Gone3}

\* bodies of PUT /ai-config: the three modes, another word, no aiMode, no JSON
AiConfigBodies ==
    {[json |-> TRUE, aiMode |-> mode] : mode \in AiModes \cup {"on", None}}
        \cup {[json |-> FALSE, aiMode |-> None]}

\* bodies of PUT /users/<user_id>/ai-enabled: aiEnabled is the JSON literal true or
\* false, or missing
AiEnabledBodies ==
    {[json |-> TRUE, aiEnabled |-> e] : e \in {"true", "false", None}}
        \cup {[json |-> FALSE, aiEnabled |-> None]}

NextConfig ==
    \/ \E token \in ConfigTokens : GetAiConfig(token)
    \/ \E token \in ConfigTokens, data \in AiConfigBodies : UpdateAiConfig(token, data)
    \/ \E token \in ConfigTokens, user_id \in 1..3, data \in AiEnabledBodies :
          UpdateUserAiEnabled(token, user_id, data)
    \/ NextConfigRequest
    \/ \E p \in Calls :
          UpdateGroup(p, Admin2, "group-001", [name |-> None, teamId |-> None])
    \/ CollectConnection

SpecConfig == Init /\ [][NextConfig]_vars

\* the stored AI mode
StoredAiMode == system_config["ai_mode"]

\* the step handles a PUT /ai-config
UpdatesAiConfig == ConfigHandled /\ cfg_request'.op = "update-ai-config"

\* C29: the stored AI mode is 'off' at the start and always one of 'off',
\* 'selective', 'all'; an update by a user who is not an administrator is answered
\* 403, an administrator's update with another value 400, and both leave the mode
\* as it was; a GET answered 200 reports canUseAi true exactly when the mode is
\* 'all', or the mode is 'selective' and the asking user's ai_enabled flag is set.
C29_AiMode ==
    /\ StoredAiMode = "off"
    /\ [][ /\ StoredAiMode' \in {"off", "selective", "all"}
           /\ UpdatesAiConfig =>
                LET token == cfg_request'.token
                    data == cfg_request'.data
                IN /\ (token.valid /\ token.user_id \in Users
                         /\ UserRole(token.user_id) # "admin")
                        => cfg_status' = 403
                   /\ (token = Admin2 /\ data.json
                         /\ data.aiMode \notin {"off", "selective", "all"})
                        => cfg_status' = 400
                   /\ cfg_status' \in {400, 403} => StoredAiMode' = StoredAiMode
           /\ (ConfigHandled /\ cfg_request'.op = "get-ai-config" /\ cfg_status' = 200) =>
                LET user == cfg_request'.token.user_id
                IN cfg_resp'.canUseAi
                     = (\/ StoredAiMode = "all"
                        \/ StoredAiMode = "selective" /\ ai_enabled[user] = 1) ]_vars

\* user 1, whose flag an administrator has set, is told canUseAi under the mode
\* 'selective' an administrator has stored
C29_Witness ==
    /\ cfg_pc = "done"
    /\ cfg_request.op = "get-ai-config"
    /\ cfg_request.token = User1
    /\ cfg_status = 200
    /\ StoredAiMode = "selective"
    /\ ai_enabled[1] = 1
    /\ ai_enabled[2] = 0
    /\ cfg_resp.canUseAi = TRUE

(* ------------------------------------------------------------------ *)
(* The template routes.  A row of the table templates is modelled by  *)
(* its id, center, team, name and fields; the table is the sequence   *)
(* of its rows in rowid order.                                        *)
(* ------------------------------------------------------------------ *)

\* a key the JSON body does not have
NoKey == "<no key>"

\* create_or_update_template: the name given to a template saved without one
DefaultTemplateName(template_center) ==
    IF template_center = "invest" THEN "investu5DE5u65F6u6A21u677F" ELSE "u5DE5u65F6u6A21u677F"

\* the columns center and team of users 1 and 2
UserCenter(user_id) == "invest"

UserTeam(user_id) == IF user_id = 1 THEN "T1" ELSE "T2"

\* the rows the INSERT conflicts with: UNIQUE(center, team) takes two NULL teams
\* for different values
Conflicting(table, template_center, team) ==
    {i \in 1..Len(table) :
        /\ table[i].center = template_center
        /\ team # None
        /\ table[i].team = team}

\* Template.create_or_update: seq is the AUTOINCREMENT counter, which the
\* statement moves on also when it ends in the update
Template_create_or_update(table, seq, template_center, team, name, template_fields) ==
    LET found == Conflicting(table, template_center, team)
        text == JsonDumps(template_fields)
    IN IF name = None
       THEN [table |-> table, seq |-> seq, exc |-> "IntegrityError"]
       ELSE IF found # {}
       THEN [table |-> [i \in 1..Len(table) |->
                           IF i \in found
                           THEN [table[i] EXCEPT !.name = name, !.fields = text]
                           ELSE table[i]],
             seq |-> seq + 1,
             exc |-> "none"]
       ELSE [table |-> Append(table, [id |-> seq + 1, center |-> template_center,
                                      team |-> team, name |-> name, fields |-> text]),
             seq |-> seq + 1,
             exc |-> "none"]

\* the row as the model methods return it, the fields parsed
TemplateOf(row) ==
    [id |-> row.id, center |-> row.center, team |-> row.team, name |-> row.name,
     fields |-> JsonLoadsText(row.fields)]

\* Template.find_by_center: the first row the SELECT yields, as a list of one
\* template, the empty list for None; rows of equal center and team come in rowid
\* order from the index
Template_find_by_center(table, template_center, team) ==
    LET found == IF ~Falsy(team)
                 THEN {i \in 1..Len(table) :
                          table[i].center = template_center /\ table[i].team = team}
                 ELSE {i \in 1..Len(table) :
                          table[i].center = template_center /\ table[i].team = None}
    IN IF found = {} THEN <<>>
       ELSE <<TemplateOf(table[CHOOSE i \in found : \A j \in found : i <= j])>>

\* Template.get_all
Template_get_all(table) == [i \in 1..Len(table) |-> TemplateOf(table[i])]

\* an answer that changes nothing
TemplateAnswer(code, data) ==
    /\ tpl_status' = code
    /\ tpl_resp' = [success |-> code = 200, data |-> data]
    /\ UNCHANGED <<templates, templates_seq, db_locked>>

\* GET /templates
GetTemplates(token) ==
    /\ tpl_pc = "idle"
    /\ tpl_pc' = "done"
    /\ tpl_request' = [op |-> "get-templates", token |-> token]
    /\ IF ~token.valid THEN TemplateAnswer(401, None)
       ELSE TemplateAnswer(200, Template_get_all(templates))
    /\ UNCHANGED outside_template

\* GET /templates/<center>?team=
GetTemplateByCenter(token, template_center, team) ==
    /\ tpl_pc = "idle"
    /\ tpl_pc' = "done"
    /\ tpl_request' = [op |-> "get-template-by-center", token |-> token,
                       center |-> template_center, team |-> team]
    /\ LET template == Template_find_by_center(templates, template_center, team)
       IN IF ~token.valid THEN TemplateAnswer(401, None)
          ELSE IF template = <<>> THEN TemplateAnswer(404, None)
          ELSE TemplateAnswer(200, template[1])
    /\ UNCHANGED outside_template

\* POST /templates
CreateOrUpdateTemplate(token, data) ==
    /\ tpl_pc = "idle"
    /\ tpl_pc' = "done"
    /\ tpl_request' = [op |-> "create-or-update-template", token |-> token, data |-> data]
    /\ LET name == IF data.name = NoKey THEN DefaultTemplateName(data.center) ELSE data.name
           saved == Template_create_or_update(templates, templates_seq, data.center,
                                              data.team, name, data.fields)
       IN IF ~token.valid THEN TemplateAnswer(401, None)
          ELSE IF UserRole(token.user_id) # "admin" THEN TemplateAnswer(403, None)
          ELSE IF Falsy(data.center) THEN TemplateAnswer(400, None)
          ELSE IF db_locked THEN TemplateAnswer(500, None)
          ELSE /\ templates' = saved.table
               /\ templates_seq' = saved.seq
               /\ db_locked' = (saved.exc = "IntegrityError")
               /\ tpl_status' = IF saved.exc = "none" THEN 200 ELSE 500
               /\ tpl_resp' = [success |-> saved.exc = "none", data |-> None]
    /\ UNCHANGED outside_template

\* the template get_my_template answers with when the table has none
BuiltInTemplate(template_center, team) ==
    [center |-> template_center, team |-> team, name |-> "u9ED8u8BA4u6A21u677F", fields |-> "built-in"]

\* GET /my-template
GetMyTemplate(token) ==
    /\ tpl_pc = "idle"
    /\ tpl_pc' = "done"
    /\ tpl_request' = [op |-> "get-my-template", token |-> token]
    /\ LET template_center == UserCenter(token.user_id)
           team == UserTeam(token.user_id)
           of_team == Template_find_by_center(templates, template_center, team)
           of_center == Template_find_by_center(templates, template_center, None)
       IN IF ~token.valid THEN TemplateAnswer(401, None)
          ELSE IF of_team # <<>> THEN TemplateAnswer(200, of_team[1])
          ELSE IF of_center # <<>> THEN TemplateAnswer(200, of_center[1])
          ELSE TemplateAnswer(200, BuiltInTemplate(template_center, team))
    /\ UNCHANGED outside_template

\* the next request of the template routes arrives
NextTemplateRequest ==
    /\ tpl_pc = "done"
    /\ tpl_pc' = "idle"
    /\ UNCHANGED <<tpl_request, tpl_status, tpl_resp, templates, templates_seq, db_locked>>
    /\ UNCHANGED outside_template

(* ------------------------------------------------------------------ *)
(* C30: one template per center and team                               *)
(* ------------------------------------------------------------------ *)

MaxTemplateIds == 3    \* ids the AUTOINCREMENT counter hands out

TemplateTokens == {NoToken, User1, Admin2}

TemplateTeams == {"T1", None}

\* bodies of POST /templates: team template and center-wide template, with a name,
\* without one, with the name null; a body without center
TemplateBodies ==
    {[center |-> "invest", team |-> team, name |-> name, fields |-> template_fields] :
        team \in TemplateTeams, name \in {"n1", NoKey, None},
        template_fields \in {DocA, DocB}}
      \cup {[center |-> None, team |-> None, name |-> "n1", fields |-> DocA]}

NextTemplate ==
    \/ \E token \in TemplateTokens : GetTemplates(token)
    \/ \E token \in TemplateTokens, team \in TemplateTeams :
          GetTemplateByCenter(token, "invest", team)
    \/ \E token \in TemplateTokens, data \in TemplateBodies :
          templates_seq < MaxTemplateIds /\ CreateOrUpdateTemplate(token, data)
    \/ \E token \in TemplateTokens : GetMyTemplate(token)
    \/ NextTemplateRequest
    \/ CollectConnection

SpecTemplate == Init /\ [][NextTemplate]_vars

\* the rows of the table for the center and the team
RowsOf(template_center, team) ==
    {i \in 1..Len(templates) :
        templates[i].center = template_center /\ templates[i].team = team}

\* the template saved last for the center and the team: a save changes the one
\* row of the pair in place or adds a row at the end
LastSaved(template_center, team) == TemplateOf(templates[Max(RowsOf(template_center, team))])

\* the team of the template GET /my-template is to answer with
MyTeam(user_id) ==
    IF RowsOf(UserCenter(user_id), UserTeam(user_id)) # {} THEN UserTeam(user_id) ELSE None

\* C30: the table holds at most one template per center and team, a null team
\* included; GET /templates/<center> and GET /my-template answer with the template
\* saved last for the center and the team.
C30_OneTemplatePerPair ==
    /\ \A i, j \in 1..Len(templates) :
          (templates[i].center = templates[j].center /\ templates[i].team = templates[j].team)
              => i = j
    /\ (tpl_pc = "done" /\ tpl_request.op = "get-template-by-center" /\ tpl_status = 200)
          => tpl_resp.data = LastSaved(tpl_request.center, tpl_request.team)
    /\ (/\ tpl_pc = "done" /\ tpl_request.op = "get-my-template" /\ tpl_status = 200
        /\ RowsOf("invest", MyTeam(tpl_request.token.user_id)) # {})
          => tpl_resp.data = LastSaved("invest", MyTeam(tpl_request.token.user_id))
====
